---- MODULE Spec2Model ----
(***************************************************************************)
(* Installation and linking subsystem of add-skill (src/installer.ts).     *)
(*                                                                         *)
(* Strings are sequences of one-character strings; a path string is such a *)
(* sequence with "/" as the separator (POSIX host, path.sep = "/").        *)
(* The file system is a map from physical absolute paths (sequences of     *)
(* segments) to nodes; symbolic links are followed the way the kernel does *)
(* it, so a write "below" a path lands where the links lead.               *)
(***************************************************************************)
EXTENDS Naturals, Sequences, FiniteSets, TLC

VARIABLES
    fs,      \* the disk
    cwd,     \* process.cwd()
    global,  \* the scope of this run's calls (options.global)
    pool,    \* the skills this run installs
    faults,  \* I/O failures the environment has injected so far
    hist,    \* the install calls made so far, with their results
    arg,     \* the argument of the function applied outside an install run
    ret      \* what that function returned

vars == <<fs, cwd, global, pool, faults, hist, arg, ret>>

(***************************************************************************)
(* Bounds of the model.                                                    *)
(***************************************************************************)
MaxCalls == 2        \* install calls in one run
MaxFaults == 1       \* injected I/O failures in one run
MaxHops == 4         \* symbolic links followed before ELOOP (kernel: 40)

(***************************************************************************)
(* Strings.                                                                *)
(***************************************************************************)
NUL == "NUL"
SEP == "/"

\* s without the elements in drop
Filter(s, drop) == SelectSeq(s, LAMBDA c : c \notin drop)

\* s without its longest prefix of elements in set
DropLeading(s, set) ==
    IF \A k \in 1..Len(s) : s[k] \in set THEN <<>>
    ELSE SubSeq(s, CHOOSE k \in 1..Len(s) :
                       s[k] \notin set /\ \A j \in 1..(k - 1) : s[j] \in set,
                Len(s))

\* s without its longest suffix of elements in set
DropTrailing(s, set) ==
    IF \A k \in 1..Len(s) : s[k] \in set THEN <<>>
    ELSE SubSeq(s, 1, CHOOSE k \in 1..Len(s) :
                          s[k] \notin set /\ \A j \in (k + 1)..Len(s) : s[j] \in set)

StartsWith(s, p) == Len(s) >= Len(p) /\ SubSeq(s, 1, Len(p)) = p

\* the regular-expression classes of sanitizeName
Stripped == {"/", "\\", ":", NUL}
DotSpace == {".", " ", "\t"}

UNNAMED == <<"u","n","n","a","m","e","d","-","s","k","i","l","l">>
MAX_NAME == 255

\* sanitizeName without the pass that strips separators and null bytes
sanitizeName_unstripped(name) ==
    LET s2 == DropTrailing(DropLeading(name, DotSpace), DotSpace)
        s3 == DropLeading(s2, {"."})
        s4 == IF s3 = <<>> THEN UNNAMED ELSE s3
    IN  IF Len(s4) > MAX_NAME THEN SubSeq(s4, 1, MAX_NAME) ELSE s4

\* sanitizeName without the substitution of the fallback for an empty name
sanitizeName_nofallback(name) ==
    LET s1 == Filter(name, Stripped)
        s2 == DropTrailing(DropLeading(s1, DotSpace), DotSpace)
        s3 == DropLeading(s2, {"."})
    IN  IF Len(s3) > MAX_NAME THEN SubSeq(s3, 1, MAX_NAME) ELSE s3

\* sanitizeName without the two passes that strip dots and spaces
sanitizeName_keepdots(name) ==
    LET s1 == Filter(name, Stripped)
        s4 == IF s1 = <<>> THEN UNNAMED ELSE s1
    IN  IF Len(s4) > MAX_NAME THEN SubSeq(s4, 1, MAX_NAME) ELSE s4

sanitizeName(name) ==
    LET s1 == Filter(name, Stripped)
        s2 == DropTrailing(DropLeading(s1, DotSpace), DotSpace)
        s3 == DropLeading(s2, {"."})
        s4 == IF s3 = <<>> THEN UNNAMED ELSE s3
    IN  IF Len(s4) > MAX_NAME THEN SubSeq(s4, 1, MAX_NAME) ELSE s4

(***************************************************************************)
(* Paths (node:path, POSIX).  Split cuts a path string at the separators;  *)
(* Norm removes "", "." and resolves ".." (clamped at the root).           *)
(***************************************************************************)
RECURSIVE SplitAcc(_, _, _)
SplitAcc(s, cur, acc) ==
    IF s = <<>> THEN Append(acc, cur)
    ELSE IF Head(s) = SEP THEN SplitAcc(Tail(s), <<>>, Append(acc, cur))
         ELSE SplitAcc(Tail(s), Append(cur, Head(s)), acc)

\* a string without a separator is one piece
Split(s) == IF \A k \in 1..Len(s) : s[k] # SEP THEN <<s>> ELSE SplitAcc(s, <<>>, <<>>)

DOT == <<".">>
DOTDOT == <<".", ".">>

RECURSIVE NormAcc(_, _)
NormAcc(segs, acc) ==
    IF segs = <<>> THEN acc
    ELSE LET h == Head(segs) IN
         IF h = <<>> \/ h = DOT THEN NormAcc(Tail(segs), acc)
         ELSE IF h = DOTDOT
              THEN NormAcc(Tail(segs),
                           IF acc = <<>> THEN acc ELSE SubSeq(acc, 1, Len(acc) - 1))
              ELSE NormAcc(Tail(segs), Append(acc, h))

Norm(segs) == NormAcc(segs, <<>>)

RECURSIVE ToStr(_)
ToStr(segs) ==
    IF segs = <<>> THEN <<>> ELSE <<SEP>> \o Head(segs) \o ToStr(Tail(segs))

\* the string of an absolute path; the root is "/"
PathStr(segs) == IF segs = <<>> THEN <<SEP>> ELSE ToStr(segs)

\* path.resolve(str): relative strings are resolved against process.cwd()
resolve(str) ==
    IF str # <<>> /\ Head(str) = SEP THEN Norm(Split(str))
    ELSE Norm(cwd \o Split(str))

\* path.join(base, str) for an absolute base
join(base, str) == Norm(base \o Split(str))

Parent(p) == IF p = <<>> THEN <<>> ELSE SubSeq(p, 1, Len(p) - 1)
basename(p) == IF p = <<>> THEN <<>> ELSE p[Len(p)]

RECURSIVE CommonLen(_, _)
CommonLen(a, b) ==
    IF a # <<>> /\ b # <<>> /\ Head(a) = Head(b)
    THEN 1 + CommonLen(Tail(a), Tail(b)) ELSE 0

RECURSIVE Ups(_)
Ups(n) == IF n = 0 THEN <<>> ELSE <<DOTDOT>> \o Ups(n - 1)

RECURSIVE RelStr(_)
RelStr(segs) ==
    IF segs = <<>> THEN <<>>
    ELSE IF Len(segs) = 1 THEN Head(segs)
         ELSE Head(segs) \o <<SEP>> \o RelStr(Tail(segs))

\* path.relative(from, to) for absolute, normalized paths
relative(from, to) ==
    LET k == CommonLen(from, to)
    IN  RelStr(Ups(Len(from) - k) \o SubSeq(to, k + 1, Len(to)))

\* isPathSafe comparing the strings without the separator after the base
isPathSafe_nosep(basePath, targetPath) ==
    StartsWith(PathStr(Norm(targetPath)), PathStr(Norm(basePath)))

isPathSafe(basePath, targetPath) ==
    LET normalizedBase == PathStr(Norm(basePath))
        normalizedTarget == PathStr(Norm(targetPath))
    IN  \/ StartsWith(normalizedTarget, normalizedBase \o <<SEP>>)
        \/ normalizedTarget = normalizedBase

(***************************************************************************)
(* The file system.  A node is a directory, a regular file with a content, *)
(* or a symbolic link holding the target string given to symlink().        *)
(***************************************************************************)
Dir == [t |-> "dir", c |-> "", to |-> <<>>]
File(c) == [t |-> "file", c |-> c, to |-> <<>>]
Link(to) == [t |-> "link", c |-> "", to |-> to]

NodeAt(f, p) == IF p = <<>> THEN Dir ELSE f[p]
IsAbs(str) == str # <<>> /\ Head(str) = SEP
Comps(str) == Filter(Split(str), {<<>>, DOT})
IsPrefix(a, b) == Len(a) <= Len(b) /\ SubSeq(b, 1, Len(a)) = a
Below(f, p) == {q \in DOMAIN f : IsPrefix(p, q)}
Without(f, ps) == [q \in DOMAIN f \ ps |-> f[q]]
Put(f, p, node) == (p :> node) @@ f

\* Path resolution: cur is the physical directory reached so far, rest the
\* components still to walk.  ex tells whether the final entry exists; when
\* it does not, p is where it would be created.
Found(p) == [done |-> TRUE, err |-> "", p |-> p, ex |-> TRUE]
Missing(p) == [done |-> TRUE, err |-> "", p |-> p, ex |-> FALSE]
Error(e, p) == [done |-> TRUE, err |-> e, p |-> p, ex |-> FALSE]
Onward(cur, rest, hops) == [done |-> FALSE, cur |-> cur, rest |-> rest, hops |-> hops]

\* one component h of the walk (t: the components after it, c: its entry)
WalkOn(f, cur, h, t, c, followLast, hops) ==
    IF h = DOTDOT THEN Onward(Parent(cur), t, hops)
    ELSE IF c \notin DOMAIN f
    THEN IF t = <<>> THEN Missing(c) ELSE Error("ENOENT", c)
    ELSE IF f[c].t = "link"
    THEN IF t = <<>> /\ ~followLast THEN Found(c)
         ELSE IF hops = 0 THEN Error("ELOOP", c)
         ELSE Onward(IF IsAbs(f[c].to) THEN <<>> ELSE cur, Comps(f[c].to) \o t, hops - 1)
    ELSE IF f[c].t = "file"
    THEN IF t = <<>> THEN Found(c) ELSE Error("ENOTDIR", c)
    ELSE Onward(c, t, hops)

WalkStep(f, cur, rest, followLast, hops) ==
    IF rest = <<>> THEN Found(cur)
    ELSE WalkOn(f, cur, Head(rest), Tail(rest), Append(cur, Head(rest)), followLast, hops)

RECURSIVE Walk(_, _, _, _, _)
WalkGo(f, st, followLast) ==
    IF st.done THEN st ELSE Walk(f, st.cur, st.rest, followLast, st.hops)

Walk(f, cur, rest, followLast, hops) ==
    WalkGo(f, WalkStep(f, cur, rest, followLast, hops), followLast)

lstat(f, p) == Walk(f, <<>>, p, FALSE, MaxHops)
stat(f, p) == Walk(f, <<>>, p, TRUE, MaxHops)

\* the entries of the directory a path leads to
readdirAt(f, s) ==
    IF s.err # "" \/ ~s.ex \/ NodeAt(f, s.p).t # "dir" THEN {}
    ELSE {q[Len(q)] : q \in {x \in DOMAIN f : x # <<>> /\ Parent(x) = s.p}}

(***************************************************************************)
(* One call's run of file-system operations.  m.fs is the disk, m.err the  *)
(* pending exception ("" for none), m.n the number of mutating system      *)
(* calls made so far, m.at the one the environment makes fail (0: none),   *)
(* m.sticky whether every mutating call after that one fails as well,      *)
(* m.log the physical entries created, overwritten or removed, each with   *)
(* the number k of the system call that did it.                            *)
(***************************************************************************)
Fail(m, e) == [m EXCEPT !.err = e]

Tick(m, op, p, newfs) ==
    IF m.n + 1 = m.at \/ (m.sticky /\ m.at # 0 /\ m.n + 1 > m.at)
    THEN [m EXCEPT !.n = @ + 1, !.err = "EIO"]
    ELSE [m EXCEPT !.n = @ + 1, !.fs = newfs,
                   !.log = @ \cup {[op |-> op, p |-> p, k |-> m.n + 1]}]

\* mkdir(p, {recursive: true}): the entry exists (s: what it leads to)
mkdirExisting(m1, s) ==
    IF s.err # "" THEN Fail(m1, s.err)
    ELSE IF ~s.ex THEN Fail(m1, "ENOENT")
    ELSE IF NodeAt(m1.fs, s.p).t # "dir" THEN Fail(m1, "EEXIST")
    ELSE m1

\* the parents are there (r: the entry itself)
mkdirHere(m1, p, r) ==
    IF r.err # "" THEN Fail(m1, r.err)
    ELSE IF ~r.ex THEN Tick(m1, "mkdir", r.p, Put(m1.fs, r.p, Dir))
    ELSE mkdirExisting(m1, stat(m1.fs, p))

mkdirBelow(m1, p) == IF m1.err # "" THEN m1 ELSE mkdirHere(m1, p, lstat(m1.fs, p))

RECURSIVE mkdir(_, _)
mkdir(m, p) == IF m.err # "" \/ p = <<>> THEN m ELSE mkdirBelow(mkdir(m, Parent(p)), p)

unlinkAt(m, r) ==
    IF r.err # "" THEN Fail(m, r.err)
    ELSE IF ~r.ex THEN Fail(m, "ENOENT")
    ELSE IF NodeAt(m.fs, r.p).t = "dir" THEN Fail(m, "EISDIR")
    ELSE Tick(m, "unlink", r.p, Without(m.fs, {r.p}))

unlink(m, p) == IF m.err # "" THEN m ELSE unlinkAt(m, lstat(m.fs, p))

rmAt(m, r, recursive) ==
    IF r.err # "" THEN Fail(m, r.err)
    ELSE IF ~r.ex THEN Fail(m, "ENOENT")
    ELSE IF NodeAt(m.fs, r.p).t = "dir" /\ ~recursive THEN Fail(m, "ERR_FS_EISDIR")
    ELSE Tick(m, "rm", r.p, Without(m.fs, Below(m.fs, r.p)))

\* rm(p) and rm(p, {recursive: true}); force is not set
rm(m, p, recursive) == IF m.err # "" THEN m ELSE rmAt(m, lstat(m.fs, p), recursive)

symlinkAt(m, target, r) ==
    IF r.err # "" THEN Fail(m, r.err)
    ELSE IF r.ex THEN Fail(m, "EEXIST")
    ELSE IF target = <<>> THEN Fail(m, "ENOENT")
    ELSE Tick(m, "symlink", r.p, Put(m.fs, r.p, Link(target)))

symlink(m, target, p) == IF m.err # "" THEN m ELSE symlinkAt(m, target, lstat(m.fs, p))

copyFileAt(m, s, d) ==
    IF s.err # "" THEN Fail(m, s.err)
    ELSE IF ~s.ex THEN Fail(m, "ENOENT")
    ELSE IF NodeAt(m.fs, s.p).t = "dir" THEN Fail(m, "EISDIR")
    ELSE IF d.err # "" THEN Fail(m, d.err)
    ELSE IF d.ex /\ NodeAt(m.fs, d.p).t = "dir" THEN Fail(m, "EISDIR")
    ELSE Tick(m, "write", d.p, Put(m.fs, d.p, File(NodeAt(m.fs, s.p).c)))

copyFile(m, src, dest) ==
    IF m.err # "" THEN m ELSE copyFileAt(m, stat(m.fs, src), stat(m.fs, dest))

\* resolve(dirname(path), target): the absolute path of a link target
LinkAbs(path, target) ==
    IF IsAbs(target) THEN Norm(Split(target)) ELSE Norm(Parent(path) \o Split(target))

\* cp's onLink, dest being a link already (st: what src leads to)
onLinkReplace(m, dest, resolvedSrc, resolvedDest, st) ==
    IF IsPrefix(resolvedSrc, resolvedDest) THEN Fail(m, "ERR_FS_CP_EINVAL")
    ELSE IF st.err # "" THEN Fail(m, st.err)
    ELSE IF ~st.ex THEN Fail(m, "ENOENT")
    ELSE IF NodeAt(m.fs, st.p).t = "dir" /\ IsPrefix(resolvedDest, resolvedSrc)
    THEN Fail(m, "ERR_FS_CP_SYMLINK_TO_SUBDIRECTORY")
    ELSE symlink(unlink(m, dest), PathStr(resolvedSrc), dest)

\* cp's onLink: copy the link src onto dest (d: the lstat of dest)
onLink(m, src, dest, resolvedSrc, d) ==
    IF ~d.ex THEN symlink(m, PathStr(resolvedSrc), dest)
    ELSE IF NodeAt(m.fs, d.p).t # "link" THEN Fail(m, "EEXIST")
    ELSE onLinkReplace(m, dest, resolvedSrc, LinkAbs(dest, NodeAt(m.fs, d.p).to),
                       stat(m.fs, src))

\* cp's checkPaths and dispatch on the type of src (sn, dn: the two nodes)
cpCopy(m, src, dest, s, d, sn, dn) ==
    IF d.ex /\ s.p = d.p THEN Fail(m, "ERR_FS_CP_EINVAL")
    ELSE IF d.ex /\ sn.t = "dir" /\ dn.t # "dir" THEN Fail(m, "ERR_FS_CP_DIR_TO_NON_DIR")
    ELSE IF d.ex /\ sn.t # "dir" /\ dn.t = "dir" THEN Fail(m, "ERR_FS_CP_NON_DIR_TO_DIR")
    ELSE IF sn.t = "dir" THEN Fail(m, "ERR_FS_EISDIR")
    ELSE IF sn.t = "link" THEN onLink(m, src, dest, LinkAbs(src, sn.to), d)
    ELSE copyFile(IF d.ex THEN unlink(m, dest) ELSE m, src, dest)

cpAt(m, src, dest, s, d) ==
    IF s.err # "" THEN Fail(m, s.err)
    ELSE IF ~s.ex THEN Fail(m, "ENOENT")
    ELSE IF d.err # "" THEN Fail(m, d.err)
    ELSE cpCopy(m, src, dest, s, d, NodeAt(m.fs, s.p), IF d.ex THEN NodeAt(m.fs, d.p) ELSE Dir)

\* cp(src, dest) with the default options (not recursive, dereference: false,
\* force: true), as fs/promises implements it
cp(m, src, dest) ==
    IF m.err # "" THEN m ELSE cpAt(m, src, dest, lstat(m.fs, src), lstat(m.fs, dest))

README_MD == <<"R","E","A","D","M","E",".","m","d">>
METADATA_JSON == <<"m","e","t","a","d","a","t","a",".","j","s","o","n">>
SKILL_MD == <<"S","K","I","L","L",".","m","d">>

EXCLUDE_FILES == {README_MD, METADATA_JSON}

isExcluded(name) == name \in EXCLUDE_FILES \/ StartsWith(name, <<"_">>)

IsDirAt(f, r) == r.err = "" /\ r.ex /\ NodeAt(f, r.p).t = "dir"

\* Dirent.isDirectory(): the type of the entry itself, links not followed
EntryIsDirectory(f, p) == IsDirAt(f, lstat(f, p))

RECURSIVE copyDirectory(_, _, _)
RECURSIVE copyEntries(_, _, _, _)

\* the body of copyDirectory's loop for one entry
copyEntry(m, name, srcPath, destPath) ==
    IF isExcluded(name) THEN m
    ELSE IF EntryIsDirectory(m.fs, srcPath) THEN copyDirectory(m, srcPath, destPath)
    ELSE cp(m, srcPath, destPath)

copyEntriesStep(m, src, dest, entries, name) ==
    copyEntries(copyEntry(m, name, Append(src, name), Append(dest, name)),
                src, dest, entries \ {name})

\* the loop over the entries readdir returned
copyEntries(m, src, dest, entries) ==
    IF m.err # "" \/ entries = {} THEN m
    ELSE copyEntriesStep(m, src, dest, entries, CHOOSE e \in entries : TRUE)

copyDirectoryList(m1, src, dest, s) ==
    IF s.err # "" THEN Fail(m1, s.err)
    ELSE IF ~s.ex THEN Fail(m1, "ENOENT")
    ELSE IF NodeAt(m1.fs, s.p).t # "dir" THEN Fail(m1, "ENOTDIR")
    ELSE copyEntries(m1, src, dest, readdirAt(m1.fs, s))

copyDirectoryMade(m1, src, dest) ==
    IF m1.err # "" THEN m1 ELSE copyDirectoryList(m1, src, dest, stat(m1.fs, src))

copyDirectory(m, src, dest) == copyDirectoryMade(mkdir(m, dest), src, dest)

\* createSymlink's end: the boolean it returns; no exception leaves it
createSymlinkDone(m3) ==
    IF m3.err # "" THEN [m |-> [m3 EXCEPT !.err = ""], ok |-> FALSE]
    ELSE [m |-> m3, ok |-> TRUE]

\* the inner catch swallowed whatever lstat, readlink or rm threw
createSymlinkLink(removed, target, linkPath, linkDir) ==
    createSymlinkDone(symlink(mkdir([removed EXCEPT !.err = ""], linkDir),
                              relative(linkDir, target), linkPath))

\* the entry found at linkPath is removed
createSymlinkRemove(m, linkPath, stats, isLink) ==
    IF stats.err # "" \/ ~stats.ex THEN m
    ELSE IF isLink THEN rm(m, linkPath, FALSE)
    ELSE rm(m, linkPath, TRUE)

createSymlinkInspect(m, target, linkPath, stats, isLink) ==
    IF isLink /\ resolve(NodeAt(m.fs, stats.p).to) = resolve(PathStr(target))
    THEN [m |-> m, ok |-> TRUE]
    ELSE createSymlinkLink(createSymlinkRemove(m, linkPath, stats, isLink),
                           target, linkPath, join(linkPath, DOTDOT))

createSymlinkFound(m, target, linkPath, stats) ==
    createSymlinkInspect(m, target, linkPath, stats,
                         stats.err = "" /\ stats.ex /\ NodeAt(m.fs, stats.p).t = "link")

createSymlink(m, target, linkPath) ==
    createSymlinkFound(m, target, linkPath, lstat(m.fs, linkPath))

(***************************************************************************)
(* The installer.                                                          *)
(***************************************************************************)
AGENTS_DIR == <<".","a","g","e","n","t","s">>
SKILLS_SUBDIR == <<"s","k","i","l","l","s">>

HOME == << <<"h">> >>
homedir == HOME

\* the agent registry (agents.ts): amp reads the canonical store itself;
\* claude stands for the identifier 'claude-code'
agents ==
    [amp |-> [skillsDir |-> AGENTS_DIR \o <<SEP>> \o SKILLS_SUBDIR,
              globalSkillsDir |-> HOME \o << <<".","c","o","n","f","i","g">>,
                                             <<"a","g","e","n","t","s">>, SKILLS_SUBDIR >>],
     claude |-> [skillsDir |-> <<".","c","l","a","u","d","e">> \o <<SEP>> \o SKILLS_SUBDIR,
                 globalSkillsDir |-> HOME \o << <<".","c","l","a","u","d","e">>, SKILLS_SUBDIR >>],
     cursor |-> [skillsDir |-> <<".","c","u","r","s","o","r">> \o <<SEP>> \o SKILLS_SUBDIR,
                 globalSkillsDir |-> HOME \o << <<".","c","u","r","s","o","r">>, SKILLS_SUBDIR >>]]

AgentType == DOMAIN agents

getCanonicalSkillsDir(isGlobal) ==
    LET baseDir == IF isGlobal THEN homedir ELSE cwd
    IN  join(baseDir, AGENTS_DIR \o <<SEP>> \o SKILLS_SUBDIR)

TRAVERSAL == "Invalid skill name: potential path traversal detected"

\* an InstallResult; canonicalPath <<>>, symlinkFailed "undefined" and error ""
\* stand for an absent field.  thrown: the call raised instead of returning.
Result(success, path, canonicalPath, symlinkFailed, error) ==
    [thrown |-> FALSE, success |-> success, path |-> path,
     canonicalPath |-> canonicalPath, symlinkFailed |-> symlinkFailed,
     error |-> error]

\* a catch clause that lets the exception go on to the caller
catch_rethrow(agentDir, error) ==
    [Result(FALSE, agentDir, <<>>, "undefined", error) EXCEPT !.thrown = TRUE]

\* the catch clause of installSkillForAgent
catch(agentDir, error) == Result(FALSE, agentDir, <<>>, "undefined", error)

\* the names and directories installSkillForAgent computes before it acts
Targets(skill, agentType, isGlobal) ==
    LET rawSkillName == IF skill.name # <<>> THEN skill.name ELSE basename(skill.path)
        skillName == sanitizeName(rawSkillName)
        canonicalBase == getCanonicalSkillsDir(isGlobal)
        agentBase == IF isGlobal THEN agents[agentType].globalSkillsDir
                     ELSE join(cwd, agents[agentType].skillsDir)
    IN  [skillName |-> skillName,
         canonicalBase |-> canonicalBase,
         canonicalDir |-> join(canonicalBase, skillName),
         agentBase |-> agentBase,
         agentDir |-> join(agentBase, skillName)]

\* what a call leaves: the run it made (m), its targets (T), what
\* createSymlink returned ("true", "false", or "none" when it was not called)
\* and the call's result
Outcome(m, T, linked, res) == [m |-> m, T |-> T, linked |-> linked, res |-> res]

Succeeded(m, T, linked, symlinkFailed) ==
    Outcome(m, T, linked, Result(TRUE, T.agentDir, T.canonicalDir, symlinkFailed, ""))

\* the end of a copy into agentDir
installCopied(m, T, linked, symlinkFailed) ==
    IF m.err # "" THEN Outcome(m, T, linked, catch(T.agentDir, m.err))
    ELSE Succeeded(m, T, linked, symlinkFailed)

\* a fallback that makes agentDir and copies nothing into it
installLinked_nocopy(cs, T, skill) ==
    IF cs.ok THEN Succeeded(cs.m, T, "true", "undefined")
    ELSE installCopied(mkdir(cs.m, T.agentDir), T, "false", "true")

\* after createSymlink: done, or the copy made when linking failed
installLinked(cs, T, skill) ==
    IF cs.ok THEN Succeeded(cs.m, T, "true", "undefined")
    ELSE installCopied(copyDirectory(mkdir(cs.m, T.agentDir), skill.path, T.agentDir),
                       T, "false", "true")

\* after the canonical copy
installCanonical(m1, T, skill, noSymlink) ==
    IF m1.err # "" THEN Outcome(m1, T, "none", catch(T.agentDir, m1.err))
    ELSE IF noSymlink
    THEN installCopied(copyDirectory(mkdir(m1, T.agentDir), skill.path, T.agentDir),
                       T, "none", "undefined")
    ELSE installLinked(createSymlink(m1, T.canonicalDir, T.agentDir), T, skill)

\* an installer that copies into agentDir before it fills the canonical
\* directory
installRun_agentfirst(m0, T, skill, noSymlink) ==
    IF ~isPathSafe(T.canonicalBase, T.canonicalDir) \/ ~isPathSafe(T.agentBase, T.agentDir)
    THEN Outcome(m0, T, "none", Result(FALSE, T.agentDir, <<>>, "undefined", TRAVERSAL))
    ELSE installCanonical(
             copyDirectory(mkdir(copyDirectory(mkdir(m0, T.agentDir), skill.path, T.agentDir),
                                 T.canonicalDir),
                           skill.path, T.canonicalDir),
             T, skill, noSymlink)

installRun(m0, T, skill, noSymlink) ==
    IF ~isPathSafe(T.canonicalBase, T.canonicalDir)
    THEN Outcome(m0, T, "none", Result(FALSE, T.agentDir, <<>>, "undefined", TRAVERSAL))
    ELSE IF ~isPathSafe(T.agentBase, T.agentDir)
    THEN Outcome(m0, T, "none", Result(FALSE, T.agentDir, <<>>, "undefined", TRAVERSAL))
    ELSE installCanonical(copyDirectory(mkdir(m0, T.canonicalDir), skill.path, T.canonicalDir),
                          T, skill, noSymlink)

\* installSkillForAgent on disk f, the at-th mutating system call failing
installSkillForAgent(f, skill, agentType, isGlobal, noSymlink, at) ==
    installRun([fs |-> f, err |-> "", n |-> 0, at |-> at, sticky |-> FALSE, log |-> {}],
               Targets(skill, agentType, isGlobal), skill, noSymlink)

\* installSkillForAgent on disk f, every mutating system call from the at-th
\* on failing
installSkillForAgentFailing(f, skill, agentType, isGlobal, noSymlink, at) ==
    installRun([fs |-> f, err |-> "", n |-> 0, at |-> at, sticky |-> TRUE, log |-> {}],
               Targets(skill, agentType, isGlobal), skill, noSymlink)

(***************************************************************************)
(* The world the installer runs in.                                        *)
(***************************************************************************)
TMP == << <<"t">> >>
PROJ == << <<"p">> >>
SUBPROJ == HOME \o << <<"w">>, <<"p">> >>
ProcessCwds == {PROJ, SUBPROJ}

S1 == TMP \o << <<"s","1">> >>
S2 == TMP \o << <<"s","2">> >>
S3 == TMP \o << <<"s","3">> >>
EXT == TMP \o << <<"e","x","t">> >>
DATA == <<"d","a","t","a">>
BROKEN == <<"b","r","o","k","e","n">>
CONFIG == <<"c","f","g">>

\* the fetched skill sources: S1 is a plain tree with administrative files,
\* S2 links its data directory to a directory beside it, S3 holds a dangling
\* link
Sources ==
    (TMP :> Dir) @@ (S1 :> Dir) @@ (S2 :> Dir) @@ (S3 :> Dir) @@ (EXT :> Dir)
    @@ (Append(S1, SKILL_MD) :> File("md1"))
    @@ (Append(S1, README_MD) :> File("readme"))
    @@ (Append(S1, <<"_","x">>) :> File("internal"))
    @@ (Append(S1, DATA) :> Dir)
    @@ (Append(Append(S1, DATA), CONFIG) :> File("cfg1"))
    @@ (Append(Append(S1, DATA), METADATA_JSON) :> File("meta"))
    @@ (Append(S2, SKILL_MD) :> File("md2"))
    @@ (Append(S2, DATA) :> Link(<<".",".","/","e","x","t">>))
    @@ (Append(EXT, CONFIG) :> File("cfg2"))
    @@ (Append(S3, SKILL_MD) :> File("md3"))
    @@ (Append(S3, BROKEN) :> Link(<<".",".","/","n","o","n","e">>))

SK == <<"s","k">>

\* two versions of skill sk (S1 keeps its data in a directory, S2 links it),
\* and a skill with a dangling link
MainSkills ==
    { [name |-> SK, path |-> S1],
      [name |-> SK, path |-> S2],
      [name |-> <<"b","k">>, path |-> S3] }

\* hostile names
HostileSkills ==
    { [name |-> <<".",".","/",".",".","/","e","t","c">>, path |-> S1],
      [name |-> <<"/","e","t","c","/","p","a","s","s","w","d">>, path |-> S1],
      [name |-> <<"a", NUL, "b">>, path |-> S1] }

Pools == {MainSkills, HostileSkills}

\* the directories that exist before the first call
BaseDisk(c) ==
    Sources @@ (HOME :> Dir) @@ (c :> Dir)
    @@ (IF c = SUBPROJ THEN (Parent(c) :> Dir) ELSE <<>>)

\* a disk on which an earlier tool left a link to some other directory where
\* claude's project entry of skill sk goes
StaleDisk(c, g) ==
    LET base == IF g THEN agents.claude.globalSkillsDir ELSE join(c, agents.claude.skillsDir)
    IN  (Append(base, SK) :> Link(PathStr(EXT))) @@ (base :> Dir) @@ (Parent(base) :> Dir)
        @@ BaseDisk(c)

\* nothing was applied, and so nothing returned, yet
NoReturn == [done |-> FALSE, value |-> <<>>]

\* a run installs the skills of one pool; the hostile names arrive in a
\* project whose disk is clean
Init ==
    /\ pool \in Pools
    /\ cwd \in (IF pool = HostileSkills THEN {PROJ} ELSE ProcessCwds)
    /\ global \in BOOLEAN
    /\ fs \in (IF pool = HostileSkills THEN {BaseDisk(cwd)}
               ELSE {BaseDisk(cwd), StaleDisk(cwd, global)})
    /\ faults = 0
    /\ hist = <<>>
    /\ arg = <<>>
    /\ ret = NoReturn

\* the record of a call: the disk it found, its arguments, the directories
\* it computed, its result, the exception pending at its end and the entries
\* it touched
CallRecord(skill, agentType, isGlobal, noSymlink, at, r) ==
    [before |-> fs, err |-> r.m.err, linked |-> r.linked, skill |-> skill, agent |-> agentType, global |-> isGlobal,
     noSymlink |-> noSymlink, at |-> at,
     skillName |-> r.T.skillName,
     canonicalBase |-> r.T.canonicalBase, canonicalDir |-> r.T.canonicalDir,
     agentBase |-> r.T.agentBase, agentDir |-> r.T.agentDir,
     res |-> r.res, log |-> r.m.log]

\* a call during which the file system works
Install ==
    /\ Len(hist) < MaxCalls
    /\ \E skill \in pool, agentType \in AgentType, noSymlink \in BOOLEAN :
          \E r \in {installSkillForAgent(fs, skill, agentType, global, noSymlink, 0)} :
              /\ fs' = r.m.fs
              /\ hist' = Append(hist, CallRecord(skill, agentType, global, noSymlink, 0, r))
    /\ UNCHANGED <<cwd, global, pool, faults, arg, ret>>

\* a call during which one mutating system call fails
InstallFaulty ==
    /\ Len(hist) < MaxCalls
    /\ faults < MaxFaults
    /\ \E skill \in pool, agentType \in AgentType, noSymlink \in BOOLEAN :
          \E r0 \in {installSkillForAgent(fs, skill, agentType, global, noSymlink, 0)} :
              \E at \in 1..r0.m.n :
                  \E r \in {installSkillForAgent(fs, skill, agentType, global, noSymlink, at)} :
                      /\ fs' = r.m.fs
                      /\ hist' = Append(hist, CallRecord(skill, agentType, global, noSymlink, at, r))
    /\ faults' = faults + 1
    /\ UNCHANGED <<cwd, global, pool, arg, ret>>

Next == Install \/ InstallFaulty

Spec == Init /\ [][Next]_vars

(***************************************************************************)
(* Observations on the calls made so far.                                  *)
(***************************************************************************)
Calls == 1..Len(hist)

\* the disk the i-th call left
After(i) == IF i = Len(hist) THEN fs ELSE hist[i + 1].before

Chars(s) == {s[k] : k \in 1..Len(s)}

Contains(s, sub) ==
    \E k \in 0..Len(s) : k + Len(sub) <= Len(s) /\ SubSeq(s, k + 1, k + Len(sub)) = sub

\* the names of the traversal attempts: ../../etc, /etc/passwd, a null byte
HostileName(n) ==
    \/ Contains(n, <<".",".","/",".",".","/","e","t","c">>)
    \/ Contains(n, <<"/","e","t","c","/","p","a","s","s","w","d">>)
    \/ NUL \in Chars(n)

\* the entries of the source tree src that copyDirectory is to install, as
\* paths relative to src (nothing lies below a link of the source)
SourceEntries(f, src) ==
    { SubSeq(q, Len(src) + 1, Len(q)) :
        q \in {x \in DOMAIN f : /\ IsPrefix(src, x) /\ x # src
                                /\ \A k \in (Len(src) + 1)..Len(x) : ~isExcluded(x[k])} }

\* the entry rel of src is installed under dst
Installed(f, src, dst, rel) ==
    IF f[src \o rel].t = "file"
    THEN LET d == stat(f, dst \o rel)
         IN  d.err = "" /\ d.ex /\ f[d.p] = f[src \o rel]
    ELSE IF f[src \o rel].t = "dir" THEN IsDirAt(f, stat(f, dst \o rel))
    ELSE LET d == lstat(f, dst \o rel) IN d.err = "" /\ d.ex

\* dst leads to a directory holding every entry of src that is not excluded
HoldsTree(f, src, dst) ==
    /\ IsDirAt(f, stat(f, dst))
    /\ \A rel \in SourceEntries(f, src) : Installed(f, src, dst, rel)

\* what a path leads to: the tree below it; ok is FALSE when it leads nowhere
NoTree == [ok |-> FALSE, tree |-> [rel \in {} |-> Dir]]

TreeAt(f, p) ==
    LET s == stat(f, p)
    IN  IF s.err # "" \/ ~s.ex THEN NoTree
        ELSE [ok |-> TRUE,
              tree |-> [rel \in {SubSeq(q, Len(s.p) + 1, Len(q)) : q \in Below(f, s.p)}
                           |-> NodeAt(f, s.p \o rel)]]

\* the entry at a path itself, links not followed; ex is FALSE when there is
\* none
NoEntry == [ex |-> FALSE, p |-> <<>>, node |-> Dir]

EntryAt(f, p) ==
    LET s == lstat(f, p)
    IN  IF s.err # "" \/ ~s.ex THEN NoEntry
        ELSE [ex |-> TRUE, p |-> s.p, node |-> NodeAt(f, s.p)]

\* the entry at p is a directory at p itself, no link on the way or at the end
RealDirectory(f, p) == EntryAt(f, p) = [ex |-> TRUE, p |-> p, node |-> Dir]

SourceHasDirLink(f, src) ==
    \E rel \in SourceEntries(f, src) :
        f[src \o rel].t = "link" /\ IsDirAt(f, stat(f, src \o rel))

SourceHasDanglingLink(f, src) ==
    \E rel \in SourceEntries(f, src) :
        f[src \o rel].t = "link" /\ ~stat(f, src \o rel).ex

\* an entry a call touched lies at or below one of its two bases, or is an
\* ancestor of a base that mkdir had to create
InBases(c, e) ==
    \/ IsPrefix(c.canonicalBase, e.p)
    \/ IsPrefix(c.agentBase, e.p)
    \/ e.op = "mkdir" /\ (IsPrefix(e.p, c.canonicalBase) \/ IsPrefix(e.p, c.agentBase))

\* C1: every entry an install call creates, overwrites or removes lies at or
\* below the canonical base or the agent's skills base.
C1_WritesOnlyUnderBases ==
    \A i \in Calls : \A e \in hist[i].log : InBases(hist[i], e)

\* C2 as stated: a call with a traversal name returns success:false with the
\* traversal error and touches nothing on the disk.
C2_TraversalNamesRejected ==
    \A i \in Calls :
        HostileName(hist[i].skill.name) =>
            /\ ~hist[i].res.success
            /\ hist[i].res.error = TRAVERSAL
            /\ hist[i].log = {}

\* C2 amended: a traversal name is sanitized to one path segment free of
\* separators and null bytes, so both targets are direct children of their
\* bases and the traversal error is not returned; on a clean disk the call
\* succeeds and writes under the bases only.
C2_TraversalNamesSanitized ==
    \A i \in Calls :
        HostileName(hist[i].skill.name) =>
            /\ hist[i].skillName \notin {<<>>, DOT, DOTDOT}
            /\ Chars(hist[i].skillName) \cap Stripped = {}
            /\ hist[i].canonicalDir = Append(hist[i].canonicalBase, hist[i].skillName)
            /\ hist[i].agentDir = Append(hist[i].agentBase, hist[i].skillName)
            /\ hist[i].res.error # TRAVERSAL
            /\ (i = 1 /\ hist[i].at = 0) =>
                   /\ hist[i].res.success
                   /\ hist[i].log # {}
                   /\ \A e \in hist[i].log : InBases(hist[i], e)

\* a traversal name was installed on a clean disk, under its sanitized name
C2_Witness ==
    \E i \in Calls :
        /\ i = 1 /\ hist[i].at = 0
        /\ HostileName(hist[i].skill.name)
        /\ hist[i].res.success
        /\ hist[i].canonicalDir # hist[i].agentDir
        /\ HoldsTree(After(i), hist[i].skill.path, hist[i].canonicalDir)
        /\ HoldsTree(After(i), hist[i].skill.path, hist[i].agentDir)

\* C3: when canonicalDir equals agentDir, a symlink-mode install creates no
\* symlink there, returns success:true with symlinkFailed unset, and leaves a
\* plain directory holding SKILL.md.
C3_NoSelfLoop ==
    \A i \in Calls :
        (/\ hist[i].canonicalDir = hist[i].agentDir
         /\ ~hist[i].noSymlink
         /\ hist[i].at = 0
         /\ ~EntryAt(hist[i].before, hist[i].agentDir).ex) =>
            /\ hist[i].res.success
            /\ hist[i].res.symlinkFailed = "undefined"
            /\ \A e \in hist[i].log : ~(e.op = "symlink" /\ e.p = hist[i].agentDir)
            /\ RealDirectory(After(i), hist[i].agentDir)
            /\ stat(After(i), Append(hist[i].agentDir, SKILL_MD)).ex

\* the second of two successful symlink-mode installs of one skill for one
\* agent, finding the agent's link leading to the canonical directory
Reinstall(i) ==
    /\ i > 1
    /\ hist[i].skill = hist[i - 1].skill
    /\ hist[i].agent = hist[i - 1].agent
    /\ hist[i - 1].res.success /\ hist[i - 1].linked = "true"
    /\ hist[i].at = 0
    /\ hist[i].linked # "none"
    /\ LET l == lstat(hist[i].before, hist[i].agentDir)
           a == stat(hist[i].before, hist[i].agentDir)
           c == stat(hist[i].before, hist[i].canonicalDir)
       IN  /\ l.err = "" /\ l.ex /\ hist[i].before[l.p].t = "link"
           /\ a.err = "" /\ a.ex /\ c.err = "" /\ c.ex /\ a.p = c.p

\* C4: when agentDir already is a symlink leading to canonicalDir, the second
\* install neither removes nor re-creates the agent's link.
C4_LinkIdempotent ==
    \A i \in Calls :
        Reinstall(i) =>
            /\ hist[i].linked = "true"
            /\ \A e \in hist[i].log : e.p # hist[i].agentDir

C6_NeverThrows ==
    \A i \in Calls :
        /\ ~hist[i].res.thrown
        /\ hist[i].err # "" =>
               /\ ~hist[i].res.success
               /\ hist[i].res.path = hist[i].agentDir
               /\ hist[i].res.error = hist[i].err
        /\ ~hist[i].res.success =>
               /\ hist[i].res.path = hist[i].agentDir
               /\ hist[i].res.error # ""

\* a system call failed under a call, which returned the failure after it
\* had written part of the skill
C6_Witness ==
    \E i \in Calls :
        /\ hist[i].at > 0
        /\ hist[i].err = "EIO"
        /\ hist[i].log # {}
        /\ ~hist[i].res.success /\ ~hist[i].res.thrown
        /\ hist[i].res.error = "EIO"

\* two successive calls that install one skill for two agents, the first with
\* success, the file system working throughout
ThenOtherAgent(i) ==
    /\ i > 1
    /\ hist[i].skill = hist[i - 1].skill
    /\ hist[i].agent # hist[i - 1].agent
    /\ hist[i - 1].res.success
    /\ hist[i - 1].at = 0 /\ hist[i].at = 0

\* C7: installing for agent A and then for agent B leaves A's entry unchanged
\* by the second call, and both entries lead to the canonical content.
C7_AgentsIndependent ==
    \A i \in Calls :
        ThenOtherAgent(i) =>
            /\ EntryAt(After(i), hist[i - 1].agentDir)
                   = EntryAt(hist[i].before, hist[i - 1].agentDir)
            /\ TreeAt(After(i), hist[i].canonicalDir).ok
            /\ TreeAt(After(i), hist[i - 1].agentDir) = TreeAt(After(i), hist[i].canonicalDir)
            /\ TreeAt(After(i), hist[i].agentDir) = TreeAt(After(i), hist[i].canonicalDir)

\* C8: after a successful install for agent A, the install of the same skill
\* for another agent B returns success:true.
C8_SecondAgentSucceeds ==
    \A i \in Calls : ThenOtherAgent(i) => hist[i].res.success

\* C9: a source holding a symlink to a directory installs a canonical tree
\* without symlinks, where the link's name is a directory with the content of
\* the link's target.
C9_SourceLinksFlattened ==
    \A i \in Calls :
        (/\ SourceHasDirLink(hist[i].before, hist[i].skill.path)
         /\ hist[i].canonicalDir # hist[i].agentDir
         /\ hist[i].res.success) =>
            /\ \A q \in Below(After(i), hist[i].canonicalDir) : After(i)[q].t # "link"
            /\ \A rel \in SourceEntries(After(i), hist[i].skill.path) :
                   After(i)[hist[i].skill.path \o rel].t = "link" =>
                       /\ RealDirectory(After(i), hist[i].canonicalDir \o rel)
                       /\ TreeAt(After(i), hist[i].canonicalDir \o rel)
                              = TreeAt(After(i), hist[i].skill.path \o rel)

\* C10: a source holding a dangling symlink installs with success:true; the
\* installed tree holds the other entries and no entry of the link's name.
C10_DanglingLinkSkipped ==
    \A i \in Calls :
        (/\ SourceHasDanglingLink(hist[i].before, hist[i].skill.path)
         /\ hist[i].canonicalDir # hist[i].agentDir
         /\ hist[i].at = 0
         /\ ~EntryAt(hist[i].before, hist[i].canonicalDir).ex
         /\ ~EntryAt(hist[i].before, hist[i].agentDir).ex) =>
            /\ hist[i].res.success
            /\ \A rel \in SourceEntries(After(i), hist[i].skill.path) :
                   IF After(i)[hist[i].skill.path \o rel].t = "link"
                   THEN ~EntryAt(After(i), hist[i].canonicalDir \o rel).ex
                   ELSE Installed(After(i), hist[i].skill.path, hist[i].canonicalDir, rel)

\* the entries of the source tree src that copyDirectory is to leave out (an
\* excluded name, or an entry below a directory of an excluded name)
ExcludedEntries(f, src) ==
    { SubSeq(q, Len(src) + 1, Len(q)) :
        q \in {x \in DOMAIN f : /\ IsPrefix(src, x) /\ x # src
                                /\ \E k \in (Len(src) + 1)..Len(x) : isExcluded(x[k])} }

\* C11: after a successful install, no excluded source entry (README.md,
\* metadata.json, a name starting with _; at any depth) is in the canonical
\* tree or in the agent's tree, and every other source entry is in both.
C11_AdministrativeFilesExcluded ==
    \A i \in Calls :
        hist[i].res.success =>
            /\ \A rel \in ExcludedEntries(After(i), hist[i].skill.path) :
                   /\ ~EntryAt(After(i), hist[i].canonicalDir \o rel).ex
                   /\ ~EntryAt(After(i), hist[i].agentDir \o rel).ex
            /\ HoldsTree(After(i), hist[i].skill.path, hist[i].canonicalDir)
            /\ HoldsTree(After(i), hist[i].skill.path, hist[i].agentDir)

(***************************************************************************)
(* sanitizeName on its own: the names are all short strings over an        *)
(* alphabet that holds every class of character the function tells apart,  *)
(* and long strings (a run of one character between two short ends) whose  *)
(* lengths lie around the ceiling of 255.                                  *)
(***************************************************************************)
MaxShort == 3       \* length of the short names
MaxEnd == 1         \* length of the ends of a long name
MinFill == 253      \* shortest run of a long name
MaxFill == 256      \* longest run of a long name

Alphabet == {"a", ".", " ", "/", "\\", ":", NUL}

Strings(n) == UNION {[1..k -> Alphabet] : k \in 0..n}

Fill(c, n) == [k \in 1..n |-> c]

LongNames ==
    { p \o Fill(c, n) \o q :
        p \in Strings(MaxEnd), q \in Strings(MaxEnd), c \in {"a", "."}, n \in MinFill..MaxFill }

Names == Strings(MaxShort) \cup LongNames

SanInit ==
    /\ arg \in Names
    /\ ret = NoReturn
    /\ fs = Sources /\ cwd = PROJ /\ global = FALSE /\ pool = {}
    /\ faults = 0 /\ hist = <<>>

Sanitize ==
    /\ ~ret.done
    /\ ret' = [done |-> TRUE, value |-> sanitizeName(arg)]
    /\ UNCHANGED <<fs, cwd, global, pool, faults, hist, arg>>

SanNext == Sanitize

SanSpec == SanInit /\ [][SanNext]_vars

\* C12: sanitizeName returns a non-empty string of at most 255 characters
\* without /, \, : or the null character, and the fallback unnamed-skill for
\* an input that stripping leaves empty.
C12_SanitizedNameSafe ==
    ret.done =>
        /\ Len(ret.value) >= 1
        /\ Len(ret.value) <= MAX_NAME
        /\ Chars(ret.value) \cap Stripped = {}
        /\ Chars(arg) \subseteq (Stripped \cup DotSpace) => ret.value = UNNAMED

\* a name longer than the ceiling, made of stripped characters around a run,
\* was cut to 255 characters
C12_Witness ==
    /\ ret.done
    /\ Len(arg) > MAX_NAME
    /\ Chars(arg) \cap Stripped # {}
    /\ Len(ret.value) = MAX_NAME

\* C13: the value sanitizeName returns neither starts nor ends with a dot or
\* a whitespace character, also when the input is longer than 255 characters.
C13_NoDotSpaceAtEnds ==
    ret.done =>
        /\ ret.value # <<>>
        /\ Head(ret.value) \notin DotSpace
        /\ ret.value[Len(ret.value)] \notin DotSpace

(***************************************************************************)
(* Installs on a disk where claude's project skills directory is a link to *)
(* the directory in which the skill is kept, the skill being installed     *)
(* from there under the name of its directory.                             *)
(***************************************************************************)
DevSkills == { [name |-> <<"s","1">>, path |-> S1], [name |-> <<>>, path |-> S2] }

DevDisk(c) ==
    (join(c, agents.claude.skillsDir) :> Link(PathStr(TMP)))
    @@ (Parent(join(c, agents.claude.skillsDir)) :> Dir)
    @@ BaseDisk(c)

\* a disk on which the canonical place of skill s1 is taken by a link named
\* s1 that points at s1
LoopDisk(c) ==
    (Append(getCanonicalSkillsDir(FALSE), <<"s","1">>) :> Link(<<"s","1">>))
    @@ (getCanonicalSkillsDir(FALSE) :> Dir)
    @@ (Parent(getCanonicalSkillsDir(FALSE)) :> Dir)
    @@ BaseDisk(c)

DevInit ==
    /\ pool = DevSkills
    /\ cwd = PROJ
    /\ global = FALSE
    /\ fs \in {DevDisk(cwd), LoopDisk(cwd)}
    /\ faults = 0
    /\ hist = <<>>
    /\ arg = <<>>
    /\ ret = NoReturn

DevSpec == DevInit /\ [][Next]_vars

\* C14: no install call creates, modifies or deletes an entry at or below
\* skill.path.
C14_SourceNeverMutated ==
    \A i \in Calls : \A e \in hist[i].log : ~IsPrefix(hist[i].skill.path, e.p)

\* C15: with noSymlink no symlink is attempted, and whatever was at agentDir
\* before, a successful install leaves agentDir a real directory, apart from
\* the canonical entry, that holds the skill, with canonicalPath set and
\* symlinkFailed unset.
C15_NoSymlinkIndependentCopy ==
    \A i \in Calls :
        (hist[i].noSymlink /\ hist[i].res.success) =>
            /\ hist[i].linked = "none"
            /\ \A e \in hist[i].log : ~(e.op = "symlink" /\ e.p = hist[i].agentDir)
            /\ RealDirectory(After(i), hist[i].agentDir)
            /\ hist[i].agentDir # hist[i].canonicalDir
            /\ HoldsTree(After(i), hist[i].skill.path, hist[i].agentDir)
            /\ hist[i].res.canonicalPath = hist[i].canonicalDir
            /\ hist[i].res.symlinkFailed = "undefined"

\* the entry at p is a link that points at itself
SelfLoop(f, p) ==
    /\ EntryAt(f, p) = [ex |-> TRUE, p |-> p, node |-> Link(basename(p))]
    /\ stat(f, p).err = "ELOOP"

\* C16: an install that finds a self-referential link at its canonical path
\* returns success:true and leaves the canonical path a real directory.
C16_SelfLoopCleaned ==
    \A i \in Calls :
        (hist[i].at = 0 /\ SelfLoop(hist[i].before, hist[i].canonicalDir)) =>
            /\ hist[i].res.success
            /\ RealDirectory(After(i), hist[i].canonicalDir)

(***************************************************************************)
(* Installs of one skill for several agents, one after another, in a       *)
(* project whose disk may stop taking changes in the middle of a call.     *)
(***************************************************************************)
FanSkills == { [name |-> SK, path |-> S1], [name |-> SK, path |-> S2] }

FanInit ==
    /\ pool = FanSkills
    /\ cwd = PROJ
    /\ global = FALSE
    /\ fs = BaseDisk(cwd)
    /\ faults = 0
    /\ hist = <<>>
    /\ arg = <<>>
    /\ ret = NoReturn

\* a call during which every mutating system call from some point on fails
InstallFailing ==
    /\ Len(hist) < MaxCalls
    /\ faults < MaxFaults
    /\ \E skill \in pool, agentType \in AgentType, noSymlink \in BOOLEAN :
          \E r0 \in {installSkillForAgent(fs, skill, agentType, global, noSymlink, 0)} :
              \E at \in 1..r0.m.n :
                  \E r \in {installSkillForAgentFailing(fs, skill, agentType, global, noSymlink, at)} :
                      /\ fs' = r.m.fs
                      /\ hist' = Append(hist, CallRecord(skill, agentType, global, noSymlink, at, r))
    /\ faults' = faults + 1
    /\ UNCHANGED <<cwd, global, pool, arg, ret>>

FanNext == Install \/ InstallFaulty \/ InstallFailing

FanSpec == FanInit /\ [][FanNext]_vars

\* the successful calls made before the i-th for another agent
Earlier(i) == {j \in 1..(i - 1) : hist[j].res.success /\ hist[j].agent # hist[i].agent}

\* C17: a call that returns success:false leaves the entries that earlier
\* calls installed for other agents, and their canonical entry, as they
\* were: none is removed or put back to what it was before.
C17_FailureKeepsOtherEntries ==
    \A i \in Calls : ~hist[i].res.success =>
        \A j \in Earlier(i) :
            /\ EntryAt(hist[i].before, hist[j].agentDir) = EntryAt(After(i), hist[j].agentDir)
            /\ EntryAt(hist[i].before, hist[j].canonicalDir) = EntryAt(After(i), hist[j].canonicalDir)

(***************************************************************************)
(* The removal flow (runRemove) and the lock file it updates.              *)
(***************************************************************************)
LOCK_FILE == <<".","s","k","i","l","l","-","l","o","c","k",".","j","s","o","n">>

\* getSkillLockPath(): runRemove leaves global at its default, true
getSkillLockPath == join(homedir, AGENTS_DIR \o <<SEP>> \o LOCK_FILE)

\* the contents of a lock file of the current version that tracks skill sk,
\* and of one that tracks nothing
LOCK_SK == "lock-sk"
LOCK_NONE == "lock-"

\* JSON.parse and the version check of readSkillLock: the skills tracked
parseLock(c) == IF c = LOCK_SK THEN {SK} ELSE {}

stringifyLock(skills) == IF SK \in skills THEN LOCK_SK ELSE LOCK_NONE

\* readSkillLock: a file that is missing or unreadable reads as an empty lock
readSkillLockAt(f, s) ==
    IF s.err # "" \/ ~s.ex \/ NodeAt(f, s.p).t # "file" THEN {}
    ELSE parseLock(NodeAt(f, s.p).c)

readSkillLock(f) == readSkillLockAt(f, stat(f, getSkillLockPath))

writeFileAt(m, d, c) ==
    IF d.err # "" THEN Fail(m, d.err)
    ELSE IF d.ex /\ NodeAt(m.fs, d.p).t = "dir" THEN Fail(m, "EISDIR")
    ELSE Tick(m, "write", d.p, Put(m.fs, d.p, File(c)))

writeFile(m, p, c) == IF m.err # "" THEN m ELSE writeFileAt(m, stat(m.fs, p), c)

writeSkillLock(m, skills) ==
    writeFile(mkdir(m, Parent(getSkillLockPath)), getSkillLockPath, stringifyLock(skills))

removeSkillFromLock(m, skillName) ==
    IF skillName \notin readSkillLock(m.fs) THEN m
    ELSE writeSkillLock(m, readSkillLock(m.fs) \ {skillName})

\* fs.access(p): p leads to an entry
access(f, p) == stat(f, p).err = "" /\ stat(f, p).ex

targetBase(agentType, isGlobal) ==
    IF isGlobal THEN agents[agentType].globalSkillsDir
    ELSE join(cwd, agents[agentType].skillsDir)

isSkillInstalled(f, skillName, agentType, isGlobal) ==
    /\ isPathSafe(targetBase(agentType, isGlobal),
                  join(targetBase(agentType, isGlobal), sanitizeName(skillName)))
    /\ access(f, join(targetBase(agentType, isGlobal), sanitizeName(skillName)))

getInstallPath(skillName, agentType, isGlobal) ==
    join(targetBase(agentType, isGlobal), sanitizeName(skillName))

getCanonicalPath(skillName, isGlobal) ==
    join(getCanonicalSkillsDir(isGlobal), sanitizeName(skillName))

\* the agents whose skills directory leads to an entry for the skill
InstalledFor(f, skillName, isGlobal) ==
    {a \in AgentType : isSkillInstalled(f, skillName, a, isGlobal)}

\* detected: what detectInstalledAgents (agents.ts) answers on this machine;
\* installed: the agents isSkillInstalled is true of
findAgentsWithSkill(detected, installed) == {a \in detected : a \in installed}

\* removeSkillFromAgent: what it throws it catches
removeSkillFromAgent(m, skillName, agentType, isGlobal) ==
    IF ~access(m.fs, getInstallPath(skillName, agentType, isGlobal)) THEN m
    ELSE [rm(m, getInstallPath(skillName, agentType, isGlobal), TRUE) EXCEPT !.err = ""]

\* the loop over targetAgents
RECURSIVE removeFromAgents(_, _, _, _)
removeFromAgents(m, skillName, targetAgents, isGlobal) ==
    IF targetAgents = <<>> THEN m
    ELSE removeFromAgents(removeSkillFromAgent(m, skillName, Head(targetAgents), isGlobal),
                          skillName, Tail(targetAgents), isGlobal)

removeCanonical(m, canonicalPath) ==
    IF ~access(m.fs, canonicalPath) THEN m
    ELSE [rm(m, canonicalPath, TRUE) EXCEPT !.err = ""]

\* the agents the skill is removed from: those of --agent that have it, or
\* of the agents found to have it the only one, all of them (--all), or the
\* ones picked at the prompt
targetAgentsOf(installed, agentsOpt, all, detected, selected) ==
    IF agentsOpt # {} THEN {a \in agentsOpt : a \in installed}
    ELSE IF Cardinality(findAgentsWithSkill(detected, installed)) <= 1 \/ all
         THEN findAgentsWithSkill(detected, installed)
         ELSE selected \cap findAgentsWithSkill(detected, installed)

\* what the command line and the prompt can ask for: agents named with
\* --agent, or --all, or a selection at the prompt
RemoveOptions ==
    {[agents |-> A, all |-> FALSE, selected |-> {}] : A \in SUBSET AgentType \ {{}}}
    \cup {[agents |-> {}, all |-> TRUE, selected |-> {}]}
    \cup {[agents |-> {}, all |-> FALSE, selected |-> S] : S \in SUBSET AgentType}

\* the target agents and the agents that remain (allAgentsWithSkill without
\* the targets) a removal can come to
RemovePlans(installed) ==
    {[targets |-> targetAgentsOf(installed, o.agents, o.all, detected, o.selected),
      remainingAgents |-> findAgentsWithSkill(detected, installed)
                            \ targetAgentsOf(installed, o.agents, o.all, detected, o.selected)] :
        o \in RemoveOptions, detected \in SUBSET AgentType}

Range(q) == {q[k] : k \in 1..Len(q)}

\* the orders in which a set of agents may be gone through
Orders(S) == {q \in UNION {[1..n -> S] : n \in {Cardinality(S)}} : Range(q) = S}

\* what a removal leaves: the disk before and after, the agents it went
\* through, whether the canonical directory was to go; exited: the flow
\* stopped (process.exit) before it changed anything
Removal(f, m, skillName, isGlobal, targetAgents, willRemoveCanonical) ==
    [exited |-> targetAgents = <<>>, before |-> f, after |-> m.fs,
     skillName |-> skillName, global |-> isGlobal, targetAgents |-> targetAgents,
     canonicalPath |-> getCanonicalPath(skillName, isGlobal),
     willRemoveCanonical |-> willRemoveCanonical]

runRemoveCanonical(m, skillName, isGlobal, willRemoveCanonical) ==
    IF willRemoveCanonical
    THEN removeSkillFromLock(removeCanonical(m, getCanonicalPath(skillName, isGlobal)), skillName)
    ELSE m

runRemoveConfirmed(f, skillName, isGlobal, targetAgents, willRemoveCanonical) ==
    Removal(f,
            runRemoveCanonical(
                removeFromAgents([fs |-> f, err |-> "", n |-> 0, at |-> 0, sticky |-> FALSE, log |-> {}],
                                 skillName, targetAgents, isGlobal),
                skillName, isGlobal, willRemoveCanonical),
            skillName, isGlobal, targetAgents, willRemoveCanonical)

\* runRemove with --yes, the agents to remove from settled
runRemove(f, skillName, isGlobal, targetAgents, remainingAgents) ==
    IF targetAgents = <<>>
    THEN Removal(f, [fs |-> f], skillName, isGlobal, targetAgents, FALSE)
    ELSE runRemoveConfirmed(f, skillName, isGlobal, targetAgents, remainingAgents = {})

RemSkills == { [name |-> SK, path |-> S1] }
RemNames == { SK, <<"b","k">> }

\* a machine on which the lock file tracks skill sk
LockDisk(c) ==
    (getSkillLockPath :> File(LOCK_SK)) @@ (Parent(getSkillLockPath) :> Dir) @@ BaseDisk(c)

RemInit ==
    /\ pool = RemSkills
    /\ cwd = PROJ
    /\ global \in BOOLEAN
    /\ fs \in {BaseDisk(cwd), LockDisk(cwd)}
    /\ faults = 0
    /\ hist = <<>>
    /\ arg = <<>>
    /\ ret = NoReturn

\* one removal, after any of the installs
Remove ==
    /\ ~ret.done
    /\ \E skillName \in RemNames :
          \E plan \in RemovePlans(InstalledFor(fs, skillName, global)) :
              \E targetAgents \in Orders(plan.targets) :
                  \E r \in {runRemove(fs, skillName, global, targetAgents, plan.remainingAgents)} :
                      /\ fs' = r.after
                      /\ ret' = [done |-> TRUE, value |-> r]
    /\ UNCHANGED <<cwd, global, pool, faults, hist, arg>>

RemNext == Install \/ Remove

RemSpec == RemInit /\ [][RemNext]_vars

\* agent a's entry for the removed skill
EntryOf(r, f, a) == EntryAt(f, getInstallPath(r.skillName, a, r.global))

\* agent a's entry is a link to the canonical directory, which is there
LinkedTo(r, f, a) ==
    /\ EntryOf(r, f, a).node.t = "link"
    /\ RealDirectory(f, r.canonicalPath)
    /\ stat(f, getInstallPath(r.skillName, a, r.global)) = Found(r.canonicalPath)

\* C18: runRemove deletes the canonical directory only when, the entries of
\* the targeted agents removed, no agent's skills directory holds an entry
\* for the skill; and while an agent that is not targeted is linked, the
\* canonical content and that agent's link stay as they were.
C18_CanonicalKeptWhileLinked ==
    (ret.done /\ ~ret.value.exited) =>
        /\ (EntryAt(ret.value.before, ret.value.canonicalPath).ex
              /\ ~EntryAt(ret.value.after, ret.value.canonicalPath).ex) =>
               \A a \in AgentType : ~EntryOf(ret.value, ret.value.after, a).ex
        /\ \A b \in AgentType \ Range(ret.value.targetAgents) :
               LinkedTo(ret.value, ret.value.before, b) =>
                   /\ TreeAt(ret.value.after, ret.value.canonicalPath)
                        = TreeAt(ret.value.before, ret.value.canonicalPath)
                   /\ EntryOf(ret.value, ret.value.after, b) = EntryOf(ret.value, ret.value.before, b)

(***************************************************************************)
(* The installed-skills scanner (listInstalledSkills).                     *)
(***************************************************************************)
\* the manifests that carry a name/description header; any other content,
\* "nofm" among them, has none.  A manifest's name stands for its header.
ValidManifests == {"md1", "md2", "md3"}

NoManifest == [ok |-> FALSE, name |-> ""]

parseSkillMd(c) == IF c \in ValidManifests THEN [ok |-> TRUE, name |-> c] ELSE NoManifest

readManifestAt(f, s) ==
    IF s.err # "" \/ ~s.ex \/ NodeAt(f, s.p).t # "file" THEN NoManifest
    ELSE parseSkillMd(NodeAt(f, s.p).c)

\* the manifest of the directory a path leads to
readManifest(f, dir) == readManifestAt(f, stat(f, Append(dir, SKILL_MD)))

EntriesAt(f, s) == {Append(s.p, x) : x \in readdirAt(f, s)}

\* the entries of a directory, as paths
Entries(f, base) == EntriesAt(f, stat(f, base))

\* Strategy 1 matching entries by their name instead of their resolved path
entryLinked_byname(f, real, base) ==
    \E x \in Entries(f, base) : basename(x) = basename(real) /\ stat(f, x) = Found(real)

\* Strategy 1: base holds an entry whose resolved path is the canonical entry
entryLinked(f, real, base) == \E x \in Entries(f, base) : stat(f, x) = Found(real)

linkedAgents(f, isGlobal, real) ==
    {a \in AgentType : entryLinked(f, real, targetBase(a, isGlobal))}

\* the entries of the canonical store that lead to a directory
canonicalEntries(f, isGlobal) ==
    {x \in Entries(f, getCanonicalSkillsDir(isGlobal)) : IsDirAt(f, stat(f, x))}

\* a record for every entry, whatever its manifest
canonicalRecords_unchecked(f, isGlobal) ==
    {[name |-> readManifest(f, e).name, canonicalPath |-> e,
      agents |-> linkedAgents(f, isGlobal, stat(f, e).p)] :
        e \in canonicalEntries(f, isGlobal)}

\* Strategy 1: a record for every canonical entry with a valid manifest
canonicalRecords(f, isGlobal) ==
    {[name |-> readManifest(f, e).name, canonicalPath |-> e,
      agents |-> linkedAgents(f, isGlobal, stat(f, e).p)] :
        e \in {x \in canonicalEntries(f, isGlobal) : readManifest(f, x).ok}}

\* the detected agents Strategy 1 found no entry of
unmatched(detected, records) == {a \in detected : \A r \in records : a \notin r.agents}

\* Strategy 2: agent a's directory holds a link that resolves to the
\* canonical entry of record r, or a real directory with r's manifest
agentHolds(f, isGlobal, a, r) ==
    \E x \in Entries(f, targetBase(a, isGlobal)) :
        \/ /\ EntryAt(f, x).node.t = "link"
           /\ stat(f, x) = Found(stat(f, r.canonicalPath).p)
        \/ /\ EntryIsDirectory(f, x)
           /\ readManifest(f, x).ok /\ readManifest(f, x).name = r.name

\* the real directories with a manifest in agent a's directory
selfContained(f, isGlobal, a) ==
    {x \in Entries(f, targetBase(a, isGlobal)) :
        EntryIsDirectory(f, x) /\ readManifest(f, x).ok}

\* Strategy 2: the self-contained installs of the agents U that no record
\* of R has the name of, one record a name
agentRecords(f, isGlobal, U, R) ==
    {[name |-> n,
      canonicalPath |-> CHOOSE x \in UNION {selfContained(f, isGlobal, a) : a \in U} :
                            readManifest(f, x).name = n,
      agents |-> {a \in U : \E x \in selfContained(f, isGlobal, a) : readManifest(f, x).name = n}] :
        n \in {readManifest(f, x).name : x \in UNION {selfContained(f, isGlobal, a) : a \in U}}
                \ {r.name : r \in R}}

scanAgents(f, isGlobal, U, R) ==
    {[r EXCEPT !.agents = @ \cup {a \in U : agentHolds(f, isGlobal, a, r)}] : r \in R}
    \cup agentRecords(f, isGlobal, U, R)

scanFrom(f, isGlobal, detected, R) == scanAgents(f, isGlobal, unmatched(detected, R), R)

listInstalledSkills(f, isGlobal, detected) ==
    scanFrom(f, isGlobal, detected, canonicalRecords(f, isGlobal))

\* the disks the scanner is run on: in the canonical store of the project a
\* skill, a directory without a manifest and a directory with an invalid one,
\* each there or not; in an agent's directory nothing, a link to the skill
\* under its name or under another name, a copy of it, or a directory
\* without a manifest
OTHER_FILE == <<"o","t","h","e","r">>
JUNK == <<"j","u","n","k">>
BAD == <<"b","a","d">>
NM == <<"n","m">>

StoreEntries(base) ==
    {a @@ b @@ c :
        a \in {<<>>, (Append(base, SK) :> Dir)
                      @@ (Append(Append(base, SK), SKILL_MD) :> File("md1"))},
        b \in {<<>>, (Append(base, JUNK) :> Dir)
                      @@ (Append(Append(base, JUNK), OTHER_FILE) :> File("content"))},
        c \in {<<>>, (Append(base, BAD) :> Dir)
                      @@ (Append(Append(base, BAD), SKILL_MD) :> File("nofm"))}}

AgentEntries(base, store) ==
    { <<>>,
      (Append(base, SK) :> Link(relative(base, Append(store, SK)))),
      (Append(base, NM) :> Link(relative(base, Append(store, SK)))),
      (Append(base, SK) :> Dir) @@ (Append(Append(base, SK), SKILL_MD) :> File("md1")),
      (Append(base, JUNK) :> Dir) @@ (Append(Append(base, JUNK), OTHER_FILE) :> File("content")) }

ScanDirs(c) ==
    (getCanonicalSkillsDir(FALSE) :> Dir) @@ (Parent(getCanonicalSkillsDir(FALSE)) :> Dir)
    @@ (targetBase("cursor", FALSE) :> Dir) @@ (Parent(targetBase("cursor", FALSE)) :> Dir)
    @@ (targetBase("claude", FALSE) :> Dir) @@ (Parent(targetBase("claude", FALSE)) :> Dir)
    @@ BaseDisk(c)

ScanDisks(c) ==
    {s @@ u @@ v @@ ScanDirs(c) :
        s \in StoreEntries(getCanonicalSkillsDir(FALSE)),
        u \in AgentEntries(targetBase("cursor", FALSE), getCanonicalSkillsDir(FALSE)),
        v \in AgentEntries(targetBase("claude", FALSE), getCanonicalSkillsDir(FALSE))}

ScanInit ==
    /\ pool = {}
    /\ cwd = PROJ
    /\ global = FALSE
    /\ fs \in ScanDisks(cwd)
    /\ faults = 0
    /\ hist = <<>>
    /\ arg = <<>>
    /\ ret = NoReturn

Scan ==
    /\ ~ret.done
    /\ \E detected \in SUBSET AgentType :
          /\ arg' = detected
          /\ ret' = [done |-> TRUE, value |-> listInstalledSkills(fs, global, detected)]
    /\ UNCHANGED <<fs, cwd, global, pool, faults, hist>>

ScanNext == Scan

ScanSpec == ScanInit /\ [][ScanNext]_vars

\* C19: the scanner reports no directory whose SKILL.md is missing or has no
\* name/description header, whatever else the directory holds, and reports
\* every canonical entry with a valid manifest that stands beside such a
\* directory.
C19_NoManifestNoRecord ==
    ret.done =>
        /\ \A r \in ret.value :
               /\ readManifest(fs, r.canonicalPath).ok
               /\ readManifest(fs, r.canonicalPath).name = r.name
        /\ \A e \in canonicalEntries(fs, global) :
               readManifest(fs, e).ok => \E r \in ret.value : r.canonicalPath = e

\* a scan of a store that holds a skill, a directory without a manifest and
\* one with an invalid manifest reported the skill alone
C19_Witness ==
    /\ ret.done
    /\ Append(getCanonicalSkillsDir(global), JUNK) \in DOMAIN fs
    /\ Append(getCanonicalSkillsDir(global), BAD) \in DOMAIN fs
    /\ {r.canonicalPath : r \in ret.value} = {Append(getCanonicalSkillsDir(global), SK)}

\* cursor's directory holds, under another name, a link to the canonical
\* entry of skill sk
RenamedLink ==
    /\ EntryAt(fs, Append(targetBase("cursor", global), NM)).node.t = "link"
    /\ stat(fs, Append(targetBase("cursor", global), NM))
         = Found(Append(getCanonicalSkillsDir(global), SK))
    /\ readManifest(fs, Append(getCanonicalSkillsDir(global), SK)).ok

\* C20: when an agent's directory holds a link, named otherwise than the
\* canonical directory, that resolves to a canonical entry, the scanner
\* reports exactly one record for that skill and the agent is among its
\* agents.
C20_RenamedLinkReconciled ==
    (ret.done /\ RenamedLink) =>
        /\ Cardinality({r \in ret.value : r.name = "md1"}) = 1
        /\ \A r \in ret.value :
               r.name = "md1" =>
                   /\ "cursor" \in r.agents
                   /\ r.canonicalPath = Append(getCanonicalSkillsDir(global), SK)

\* the scan met the renamed link and reported cursor for the skill
C20_Witness ==
    /\ ret.done /\ RenamedLink
    /\ \E r \in ret.value : r.name = "md1" /\ "cursor" \in r.agents

(***************************************************************************)
(* License verification and content download (auth.ts).  A call runs in    *)
(* steps: arg holds its kind, its position and the loop counter of         *)
(* fetchWithTimeout, hist the outcomes of the fetch calls it made, ret     *)
(* what it returned.                                                       *)
(***************************************************************************)
MAX_RETRIES == 2

\* what a fetch call can come to: a rejection (a TypeError whose message
\* names fetch, another TypeError, the AbortError of the timeout, any other
\* error) or a response with a status and a body
NetworkError == [t |-> "TypeError", fetch |-> TRUE, status |-> 0, body |-> ""]
Rejections ==
    { NetworkError,
      [t |-> "TypeError", fetch |-> FALSE, status |-> 0, body |-> ""],
      [t |-> "AbortError", fetch |-> FALSE, status |-> 0, body |-> ""],
      [t |-> "Error", fetch |-> FALSE, status |-> 0, body |-> ""] }

Statuses == {200, 204, 302, 401, 403, 404, 429, 500, 503}

\* bodies: a JSON object that says valid, one that says invalid, text that
\* is no JSON, a gzip archive that extracts, one that does not, nothing
Bodies == {"valid", "invalid", "text", "blank", "tgz", "badtgz", ""}

Responses == {[t |-> "response", fetch |-> FALSE, status |-> st, body |-> b] :
                 st \in Statuses, b \in Bodies}

isRetryableError(error) == error.t = "TypeError" /\ error.fetch

ok(response) == response.status >= 200 /\ response.status <= 299

\* a LicenseVerificationResult or FetchContentResult; code: the status the
\* error message ends with (0: none); thrown: the call raised instead of
\* returning
AuthFailure(error, code) == [thrown |-> FALSE, success |-> FALSE, error |-> error, code |-> code]
AuthResult(success, error) == [thrown |-> FALSE, success |-> success, error |-> error, code |-> 0]

\* verifyLicense, the response received
verifyResponse(response) ==
    IF response.status \in {401, 403} THEN AuthResult(FALSE, "Invalid or expired license key")
    ELSE IF response.status = 429 THEN AuthResult(FALSE, "Too many attempts. Try again later.")
    ELSE IF ~ok(response) THEN AuthFailure("Verification failed with status", response.status)
    ELSE IF response.body = "invalid" THEN AuthResult(FALSE, "License validation failed")
    ELSE AuthResult(TRUE, "")

\* a catch clause that passes the network error on
verifyCatch_rethrow(error) ==
    IF error.t = "AbortError" THEN AuthResult(FALSE, "Verification request timed out")
    ELSE [AuthResult(FALSE, "Unable to reach verification server") EXCEPT !.thrown = TRUE]

\* verifyLicense, the catch clause
verifyCatch(error) ==
    IF error.t = "AbortError" THEN AuthResult(FALSE, "Verification request timed out")
    ELSE AuthResult(FALSE, "Unable to reach verification server")

\* fetchPrivateSkillContent, the response received
contentResponse(response) ==
    IF response.status \in {401, 403} THEN AuthResult(FALSE, "Invalid or expired license key")
    ELSE IF response.status = 429 THEN AuthResult(FALSE, "Too many attempts. Try again later.")
    ELSE IF ~ok(response) THEN AuthFailure("Failed to fetch content (status)", response.status)
    ELSE IF response.body = "" THEN AuthResult(FALSE, "Content endpoint returned empty response")
    ELSE IF response.body = "tgz" THEN AuthResult(TRUE, "")
    ELSE IF response.body = "badtgz" THEN AuthResult(FALSE, "Failed to extract skill tarball")
    ELSE IF response.body = "blank" THEN AuthResult(FALSE, "Content endpoint returned empty response")
    ELSE AuthResult(TRUE, "")

contentCatch(error) ==
    IF error.t = "AbortError" THEN AuthResult(FALSE, "Content fetch request timed out")
    ELSE AuthResult(FALSE, "Unable to reach content server")

AuthKinds == {"verifyLicense", "fetchPrivateSkillContent"}

onResponse(kind, response) ==
    IF kind = "verifyLicense" THEN verifyResponse(response) ELSE contentResponse(response)

onError(kind, error) ==
    IF kind = "verifyLicense" THEN verifyCatch(error) ELSE contentCatch(error)

Returned(value) == [done |-> TRUE, value |-> value]

\* a loop that retries whatever was thrown
fetchGivesUp_always_retry(attempt, error) == attempt = MAX_RETRIES

\* fetchWithTimeout rethrows: the error is not retryable or it was the last
\* attempt
fetchGivesUp(attempt, error) == ~isRetryableError(error) \/ attempt = MAX_RETRIES

AuthInit ==
    /\ arg = [pc |-> "idle", kind |-> "", attempt |-> 0, configured |-> TRUE]
    /\ hist = <<>>
    /\ ret = NoReturn
    /\ fs = Sources /\ cwd = PROJ /\ global = FALSE /\ pool = {} /\ faults = 0

\* verifyLicense or fetchPrivateSkillContent is called, the latter with or
\* without a content endpoint in the auth config
AuthCall ==
    /\ arg.pc = "idle"
    /\ \E kind \in AuthKinds, configured \in BOOLEAN :
          /\ kind = "verifyLicense" => configured
          /\ IF configured
             THEN /\ arg' = [pc |-> "fetch", kind |-> kind, attempt |-> 0, configured |-> TRUE]
                  /\ ret' = NoReturn
             ELSE /\ arg' = [pc |-> "done", kind |-> kind, attempt |-> 0, configured |-> FALSE]
                  /\ ret' = Returned(AuthResult(FALSE, "No content endpoint configured"))
    /\ hist' = <<>>
    /\ UNCHANGED <<fs, cwd, global, pool, faults>>

\* one pass of the loop of fetchWithTimeout: fetch answers
FetchResponds ==
    /\ arg.pc = "fetch"
    /\ \E response \in Responses :
          /\ hist' = Append(hist, response)
          /\ ret' = Returned(onResponse(arg.kind, response))
    /\ arg' = [arg EXCEPT !.pc = "done"]
    /\ UNCHANGED <<fs, cwd, global, pool, faults>>

\* one pass of the loop: fetch rejects; the error is rethrown to the caller's
\* catch clause, or the loop waits and goes on
FetchRejects ==
    /\ arg.pc = "fetch"
    /\ \E error \in Rejections :
          /\ hist' = Append(hist, error)
          /\ IF fetchGivesUp(arg.attempt, error)
             THEN /\ ret' = Returned(onError(arg.kind, error))
                  /\ arg' = [arg EXCEPT !.pc = "done"]
             ELSE /\ ret' = ret
                  /\ arg' = [arg EXCEPT !.pc = "backoff"]
    /\ UNCHANGED <<fs, cwd, global, pool, faults>>

\* the backoff delay has passed
Backoff ==
    /\ arg.pc = "backoff"
    /\ arg' = [arg EXCEPT !.pc = "fetch", !.attempt = @ + 1]
    /\ UNCHANGED <<fs, cwd, global, pool, faults, hist, ret>>

AuthNext == AuthCall \/ FetchResponds \/ FetchRejects \/ Backoff

AuthSpec == AuthInit /\ [][AuthNext]_vars

\* C21: a call invokes fetch at most 3 times; every fetch call but the last
\* met a network error; a response ends the call; three network errors end
\* it with the failure result, nothing thrown.
C21_BoundedRetry ==
    /\ Len(hist) <= MAX_RETRIES + 1
    /\ \A k \in 1..Len(hist) : \A j \in 1..(k - 1) : hist[j] = NetworkError
    /\ (arg.pc # "idle" /\ hist # <<>> /\ hist[Len(hist)].t = "response") => ret.done
    /\ (arg.pc # "idle" /\ Len(hist) = MAX_RETRIES + 1 /\ hist[Len(hist)] = NetworkError) =>
           /\ ret.done
           /\ ~ret.value.thrown /\ ~ret.value.success
           /\ ret.value.error = (IF arg.kind = "verifyLicense"
                                 THEN "Unable to reach verification server"
                                 ELSE "Unable to reach content server")

\* three network errors in a row ended the call
C21_Witness ==
    /\ arg.pc = "done" /\ Len(hist) = 3
    /\ \A k \in 1..3 : hist[k] = NetworkError
    /\ ret.done /\ ~ret.value.success

\* the failure result that goes with a first fetch call that timed out or
\* was answered with a status that is no success
Matching(kind, outcome) ==
    IF outcome.t = "AbortError"
    THEN <<(IF kind = "verifyLicense" THEN "Verification request timed out"
            ELSE "Content fetch request timed out"), 0>>
    ELSE IF outcome.status \in {401, 403} THEN <<"Invalid or expired license key", 0>>
    ELSE IF outcome.status = 429 THEN <<"Too many attempts. Try again later.", 0>>
    ELSE <<(IF kind = "verifyLicense" THEN "Verification failed with status"
            ELSE "Failed to fetch content (status)"), outcome.status>>

\* C22: a fetch call that times out or is answered, whatever the status, is
\* the call's last; when it is the first as well and the answer is no
\* success, the call returns the failure result that goes with it.
C22_NoRetryOnTimeoutOrResponse ==
    /\ \A k \in 1..Len(hist) :
           hist[k].t \in {"AbortError", "response"} => (k = Len(hist) /\ ret.done)
    /\ (arg.pc # "idle" /\ Len(hist) = 1 /\ hist[1].t \in {"AbortError", "response"}
          /\ ~ok(hist[1])) =>
           /\ ~ret.value.thrown /\ ~ret.value.success
           /\ <<ret.value.error, ret.value.code>> = Matching(arg.kind, hist[1])

\* a single fetch call, answered 500, ended the call with the status failure
C22_Witness ==
    /\ arg.pc = "done" /\ Len(hist) = 1
    /\ hist[1].t = "response" /\ hist[1].status = 500
    /\ ret.done /\ ~ret.value.success

\* C23: after a successful install in symlink mode, the agent directory not
\* being the canonical one and the result carrying no symlinkFailed, the
\* agent entry is a symlink that resolves to the canonical directory,
\* whatever was at its path before.
C23_LinkResolvesToCanonical ==
    \A i \in Calls :
        (~hist[i].noSymlink /\ hist[i].res.success
           /\ hist[i].canonicalDir # hist[i].agentDir
           /\ hist[i].res.symlinkFailed = "undefined") =>
            /\ EntryAt(After(i), hist[i].agentDir).node.t = "link"
            /\ stat(After(i), hist[i].agentDir) = Found(hist[i].canonicalDir)
            /\ RealDirectory(After(i), hist[i].canonicalDir)

\* C24: in a call that passes the path validation, every system call that
\* changes an entry at or below the canonical directory comes before every
\* one that changes an entry at or below agentDir, the canonical directory
\* holds the skill once agentDir has been touched, and a result with
\* success:true carries the canonical directory as canonicalPath.
C24_CanonicalFirst ==
    \A i \in Calls :
        /\ hist[i].res.success => hist[i].res.canonicalPath = hist[i].canonicalDir
        /\ hist[i].canonicalDir # hist[i].agentDir =>
               \A e \in hist[i].log :
                   IsPrefix(hist[i].agentDir, e.p) =>
                       /\ \A c \in hist[i].log :
                              IsPrefix(hist[i].canonicalDir, c.p) => c.k < e.k
                       /\ HoldsTree(After(i), hist[i].skill.path, hist[i].canonicalDir)

\* a call filled the canonical directory and then made the agent's link
C24_Witness ==
    \E i \in Calls :
        /\ hist[i].res.success /\ hist[i].linked = "true"
        /\ hist[i].canonicalDir # hist[i].agentDir
        /\ \E e \in hist[i].log : e.op = "symlink" /\ e.p = hist[i].agentDir
        /\ \E c \in hist[i].log : c.p = Append(hist[i].canonicalDir, SKILL_MD)

(***************************************************************************)
(* isPathSafe on its own.  The two path strings are built from at most     *)
(* MaxBaseSegs and MaxTargetSegs pieces, absolute or relative to the       *)
(* working directory; the pieces hold names of which one is a string       *)
(* prefix of another, the empty piece, "." and "..".                       *)
(***************************************************************************)
MaxBaseSegs == 2
MaxTargetSegs == 3

Pieces == {<<"a">>, <<"b">>, <<"b", "c">>, <<"p">>, DOT, DOTDOT, <<>>}

PathStrings(n) ==
    UNION { {RelStr(segs), <<SEP>> \o RelStr(segs)} :
              segs \in UNION {[1..k -> Pieces] : k \in 0..n} }

PathInit ==
    /\ arg \in [base : PathStrings(MaxBaseSegs), target : PathStrings(MaxTargetSegs)]
    /\ ret = NoReturn
    /\ fs = Sources /\ cwd = PROJ /\ global = FALSE /\ pool = {}
    /\ faults = 0 /\ hist = <<>>

CheckPath ==
    /\ ~ret.done
    /\ ret' = Returned(isPathSafe(resolve(arg.base), resolve(arg.target)))
    /\ UNCHANGED <<fs, cwd, global, pool, faults, hist, arg>>

PathNext == CheckPath

PathSpec == PathInit /\ [][PathNext]_vars

\* C25: isPathSafe(base, target) is true exactly when the resolved target is
\* the resolved base or lies below it, component by component (for the root
\* as base: when the target is the root, "/" followed by the separator being
\* the start of no normalized path); a sibling whose name only extends the
\* name of the base, and a target that leaves the base through "..", are
\* rejected.
C25_PathSafeExact ==
    ret.done =>
        ret.value = IF resolve(arg.base) = <<>>
                    THEN resolve(arg.target) = <<>>
                    ELSE IsPrefix(resolve(arg.base), resolve(arg.target))

\* /a/bc was rejected for the base /a/b, and so was a/../.. for the base p
C25_Witness ==
    /\ ret.done /\ ~ret.value
    /\ \/ /\ arg.base = <<SEP, "a", SEP, "b">>
          /\ arg.target = <<SEP, "a", SEP, "b", "c">>
       \/ /\ arg.base = <<"p">>
          /\ arg.target = <<"a", SEP, ".", ".", SEP, ".", ".">>

(***************************************************************************)
(* cloneRepo.  The URLs are a protocol, a repository and an ending, the    *)
(* endings holding each pattern isValidGitUrl looks for and some it does   *)
(* not; git.clone either fills the directory, or fails having written      *)
(* nothing or a part of the repository.                                    *)
(***************************************************************************)
Letters ==
    {"a","b","c","d","e","f","g","h","i","j","k","l","m","n","o","p","q","r","s","t",
     "u","v","w","x","y","z","A","B","C","D","E","F","G","H","I","J","K","L","M","N",
     "O","P","Q","R","S","T","U","V","W","X","Y","Z"}
Whitespace == {" ", "\t", "\n"}
\* the character U+0060
BACKTICK == "backtick"

\* /\s--/ or /\s-[a-zA-Z]/ matches
optionInjected(url) ==
    \E k \in 1..Len(url) :
        /\ k + 2 <= Len(url)
        /\ url[k] \in Whitespace /\ url[k + 1] = "-"
        /\ url[k + 2] = "-" \/ url[k + 2] \in Letters

validProtocols ==
    { <<"h","t","t","p","s",":","/","/">>, <<"h","t","t","p",":","/","/">>,
      <<"g","i","t",":","/","/">>, <<"s","s","h",":","/","/">>, <<"g","i","t","@">> }

isValidGitUrl(url) ==
    /\ ~optionInjected(url)
    /\ Chars(url) \cap {";", "|", "&", BACKTICK, ">", "<"} = {}
    /\ ~Contains(url, <<"$", "(">>)
    /\ \E protocol \in validProtocols : StartsWith(url, protocol)

INVALID_URL == "Invalid or potentially malicious git URL"
GIT_ERROR == "GitError"

CloneOutcomes == {"cloned", "failed", "failed-partial"}

\* mkdtemp(prefix): a new directory
mkdtemp(m, p) == IF m.err # "" THEN m ELSE Tick(m, "mkdir", p, Put(m.fs, p, Dir))

\* git.clone(url, tempDir, options), a process of its own
gitClone(m, tempDir, outcome) ==
    [m EXCEPT !.n = @ + 1,
              !.err = IF outcome = "cloned" THEN "" ELSE GIT_ERROR,
              !.fs = IF outcome = "failed" THEN @
                     ELSE IF outcome = "failed-partial"
                          THEN Put(@, Append(tempDir, README_MD), File("readme"))
                          ELSE Put(Put(@, Append(tempDir, README_MD), File("readme")),
                                   Append(tempDir, SKILL_MD), File("md1")),
              !.log = @ \cup {[op |-> "clone", p |-> tempDir, k |-> m.n + 1]}]

\* rm(p, {recursive: true, force: true})
rmForceAt(m, r) ==
    IF r.err # "" THEN Fail(m, r.err)
    ELSE IF ~r.ex THEN m
    ELSE Tick(m, "rm", r.p, Without(m.fs, Below(m.fs, r.p)))

rmForce(m, p) == IF m.err # "" THEN m ELSE rmForceAt(m, lstat(m.fs, p))

CloneResult(m, thrown, value) == [m |-> m, thrown |-> thrown, value |-> value]

\* the catch clause: rm(...).catch(() => {}) and the error thrown again
cloneCatch(m2, tempDir) ==
    CloneResult([rmForce([m2 EXCEPT !.err = ""], tempDir) EXCEPT !.err = ""], m2.err, <<>>)

cloneTry(m1, tempDir, outcome) ==
    IF m1.err # "" THEN CloneResult(m1, m1.err, <<>>)
    ELSE IF outcome = "cloned" THEN CloneResult(gitClone(m1, tempDir, outcome), "", tempDir)
    ELSE cloneCatch(gitClone(m1, tempDir, outcome), tempDir)

cloneRepo(f, url, tempDir, outcome, at) ==
    IF ~isValidGitUrl(url)
    THEN CloneResult([fs |-> f, err |-> "", n |-> 0, at |-> at, sticky |-> FALSE, log |-> {}],
                     INVALID_URL, <<>>)
    ELSE cloneTry(mkdtemp([fs |-> f, err |-> "", n |-> 0, at |-> at, sticky |-> FALSE,
                           log |-> {}], tempDir),
                  tempDir, outcome)

Protocols ==
    validProtocols \cup { <<"f","t","p",":","/","/">>, <<"/">>, <<>>, <<" ","g","i","t","@">> }
Repository == <<"h","/","r">>
Endings ==
    { <<>>, <<" ","-","-","u">>, <<" ","-","o">>, <<"\t","-","X">>, <<" ","-","1">>,
      <<"-","-","u">>, <<" ","-"," ","o">>, <<";","x">>, <<"|","x">>, <<"&","x">>,
      <<BACKTICK,"x",BACKTICK>>, <<"$","(","x",")">>, <<"$","x">>, <<">","x">>, <<"<","x">> }
Urls == { protocol \o Repository \o ending : protocol \in Protocols, ending \in Endings }

\* the directory mkdtemp makes in the n-th call
TempDir(n) == Append(TMP, <<"a","d","d","-","s","k","i","l","l","-", ToString(n)>>)

CloneRecord(url, outcome, at, tempDir, r) ==
    [url |-> url, outcome |-> outcome, at |-> at, tempDir |-> tempDir,
     thrown |-> r.thrown, value |-> r.value, log |-> r.m.log, after |-> r.m.fs]

CloneInit ==
    /\ fs = Sources /\ cwd = PROJ /\ global = FALSE /\ pool = {}
    /\ faults = 0 /\ hist = <<>> /\ arg = <<>> /\ ret = NoReturn

\* a call during which the file system works
Clone ==
    /\ Len(hist) < MaxCalls
    /\ \E url \in Urls, outcome \in CloneOutcomes :
          \E r \in {cloneRepo(fs, url, TempDir(Len(hist) + 1), outcome, 0)} :
              /\ fs' = r.m.fs
              /\ hist' = Append(hist, CloneRecord(url, outcome, 0, TempDir(Len(hist) + 1), r))
    /\ UNCHANGED <<cwd, global, pool, faults, arg, ret>>

\* a call during which one mutating system call fails
CloneFaulty ==
    /\ Len(hist) < MaxCalls
    /\ faults < MaxFaults
    /\ \E url \in Urls, outcome \in CloneOutcomes :
          \E r0 \in {cloneRepo(fs, url, TempDir(Len(hist) + 1), outcome, 0)} :
              \E at \in 1..r0.m.n :
                  \E r \in {cloneRepo(fs, url, TempDir(Len(hist) + 1), outcome, at)} :
                      /\ fs' = r.m.fs
                      /\ hist' = Append(hist, CloneRecord(url, outcome, at,
                                                          TempDir(Len(hist) + 1), r))
    /\ faults' = faults + 1
    /\ UNCHANGED <<cwd, global, pool, arg, ret>>

CloneNext == Clone \/ CloneFaulty

CloneSpec == CloneInit /\ [][CloneNext]_vars

\* C27: a call with a URL that isValidGitUrl rejects makes no directory and
\* does not run git; a call that throws leaves no temporary directory on the
\* disk; a call that returns, returns the directory it made, and git filled
\* it.
C27_FailedCloneLeavesNoTemp ==
    \A i \in 1..Len(hist) :
        /\ ~isValidGitUrl(hist[i].url) => hist[i].thrown = INVALID_URL /\ hist[i].log = {}
        /\ hist[i].thrown # "" => hist[i].tempDir \notin DOMAIN hist[i].after
        /\ hist[i].thrown = "" =>
               /\ hist[i].value = hist[i].tempDir
               /\ Append(hist[i].tempDir, SKILL_MD) \in DOMAIN hist[i].after

(***************************************************************************)
(* The lock file in full.  A file's content is what JSON.parse makes of    *)
(* it: json tells whether it parses, version and skills are the fields of  *)
(* the object.  An entry carries the fields the caller passes (source,     *)
(* skillFolderHash) and the two time stamps; the clock is arg.             *)
(***************************************************************************)
CURRENT_VERSION == 3
MaxTime == 3        \* the last instant of the clock

LockJson(version, skills) == [json |-> TRUE, version |-> version, skills |-> skills]
NotJson == [json |-> FALSE, version |-> 0, skills |-> <<>>]

createEmptyLockFile == LockJson(CURRENT_VERSION, <<>>)

\* getSkillLockPath(global)
lockPath(isGlobal) ==
    join(IF isGlobal THEN homedir ELSE cwd, AGENTS_DIR \o <<SEP>> \o LOCK_FILE)

\* readSkillLock(global): the parsed object, or an empty lock for a file that
\* is missing, does not parse or has an older version
readLockAt(f, s) ==
    IF s.err # "" \/ ~s.ex \/ NodeAt(f, s.p).t # "file" THEN createEmptyLockFile
    ELSE IF ~NodeAt(f, s.p).c.json THEN createEmptyLockFile
    ELSE IF NodeAt(f, s.p).c.version < CURRENT_VERSION THEN createEmptyLockFile
    ELSE NodeAt(f, s.p).c

readLock(f, isGlobal) == readLockAt(f, stat(f, lockPath(isGlobal)))

\* writeSkillLock(lock, global)
writeLock(m, lock, isGlobal) ==
    writeFile(mkdir(m, Parent(lockPath(isGlobal))), lockPath(isGlobal), lock)

LockEntry(entry, installedAt, updatedAt) ==
    [source |-> entry.source, skillFolderHash |-> entry.skillFolderHash,
     installedAt |-> installedAt, updatedAt |-> updatedAt]

\* the assignment with installedAt always set to the time of the call
withEntry_fresh(lock, skillName, entry, now) ==
    [lock EXCEPT !.skills = (skillName :> LockEntry(entry, now, now)) @@ lock.skills]

\* lock.skills[skillName] = {...entry, installedAt: ..., updatedAt: now}
withEntry(lock, skillName, entry, now) ==
    [lock EXCEPT !.skills =
        (skillName :> LockEntry(entry,
                                IF skillName \in DOMAIN lock.skills
                                THEN lock.skills[skillName].installedAt ELSE now,
                                now)) @@ lock.skills]

addSkillToLock(m, skillName, entry, isGlobal, now) ==
    writeLock(m, withEntry(readLock(m.fs, isGlobal), skillName, entry, now), isGlobal)

NoLockEntry == [source |-> "", skillFolderHash |-> "", installedAt |-> 0, updatedAt |-> 0]

\* getSkillFromLock(skillName, global): the entry, or null (found: FALSE)
getSkillFromLock(f, skillName, isGlobal) ==
    IF skillName \in DOMAIN readLock(f, isGlobal).skills
    THEN [found |-> TRUE, entry |-> readLock(f, isGlobal).skills[skillName]]
    ELSE [found |-> FALSE, entry |-> NoLockEntry]

LockNames == {"a", "b"}
NewEntries == [source : {"o/r"}, skillFolderHash : {"h1", "h2"}]

\* the entries of a lock file written at instant 0
OldSkills(names) ==
    [n \in names |-> [source |-> "o/r", skillFolderHash |-> "h0", installedAt |-> 0,
                      updatedAt |-> 0]]

\* lock files of the current, the previous and a later version, and a file
\* that is not JSON
LockFiles ==
    { LockJson(v, OldSkills(LockNames)) : v \in {CURRENT_VERSION - 1, CURRENT_VERSION,
                                                  CURRENT_VERSION + 1} }
    \cup {LockJson(CURRENT_VERSION, OldSkills({"a"})), NotJson}

LockDisks ==
    {BaseDisk(PROJ)}
    \cup { (lockPath(TRUE) :> File(c)) @@ (Parent(lockPath(TRUE)) :> Dir) @@ BaseDisk(PROJ) :
             c \in LockFiles }

LockInit ==
    /\ cwd = PROJ
    /\ fs \in LockDisks
    /\ arg = 1
    /\ global = FALSE /\ pool = {} /\ faults = 0 /\ hist = <<>> /\ ret = NoReturn

LockRecord(skillName, entry, isGlobal, at, m) ==
    [before |-> fs, skillName |-> skillName, entry |-> entry, global |-> isGlobal,
     now |-> arg, at |-> at, err |-> m.err]

\* a call during which the file system works
AddToLock ==
    /\ Len(hist) < MaxCalls
    /\ \E skillName \in LockNames, entry \in NewEntries, isGlobal \in BOOLEAN :
          \E m \in {addSkillToLock([fs |-> fs, err |-> "", n |-> 0, at |-> 0,
                                    sticky |-> FALSE, log |-> {}],
                                   skillName, entry, isGlobal, arg)} :
              /\ fs' = m.fs
              /\ hist' = Append(hist, LockRecord(skillName, entry, isGlobal, 0, m))
    /\ UNCHANGED <<cwd, global, pool, faults, arg, ret>>

\* a call during which one mutating system call fails
AddToLockFaulty ==
    /\ Len(hist) < MaxCalls
    /\ faults < MaxFaults
    /\ \E skillName \in LockNames, entry \in NewEntries, isGlobal \in BOOLEAN :
          \E m0 \in {addSkillToLock([fs |-> fs, err |-> "", n |-> 0, at |-> 0,
                                     sticky |-> FALSE, log |-> {}],
                                    skillName, entry, isGlobal, arg)} :
              \E at \in 1..m0.n :
                  \E m \in {addSkillToLock([fs |-> fs, err |-> "", n |-> 0, at |-> at,
                                            sticky |-> FALSE, log |-> {}],
                                           skillName, entry, isGlobal, arg)} :
                      /\ fs' = m.fs
                      /\ hist' = Append(hist, LockRecord(skillName, entry, isGlobal, at, m))
    /\ faults' = faults + 1
    /\ UNCHANGED <<cwd, global, pool, arg, ret>>

\* time passes
Elapse ==
    /\ arg < MaxTime
    /\ arg' = arg + 1
    /\ UNCHANGED <<fs, cwd, global, pool, faults, hist, ret>>

LockNext == AddToLock \/ AddToLockFaulty \/ Elapse

LockSpec == LockInit /\ [][LockNext]_vars

\* the entries written in the lock file of a scope, whatever its version
WrittenSkills(f, isGlobal) ==
    IF lockPath(isGlobal) \in DOMAIN f /\ f[lockPath(isGlobal)].t = "file"
       /\ f[lockPath(isGlobal)].c.json
    THEN f[lockPath(isGlobal)].c.skills ELSE <<>>

\* the i-th call returned, and what getSkillFromLock gives after it is the
\* new entry: with the installedAt of old for a name old holds and the time
\* of the call for another, with the time of the call as updatedAt, next to
\* the entries old holds for the other names
Updated(i, old) ==
    /\ getSkillFromLock(After(i), hist[i].skillName, hist[i].global).found
    /\ getSkillFromLock(After(i), hist[i].skillName, hist[i].global).entry =
           LockEntry(hist[i].entry,
                     IF hist[i].skillName \in DOMAIN old
                     THEN old[hist[i].skillName].installedAt ELSE hist[i].now,
                     hist[i].now)
    /\ \A n \in DOMAIN old \ {hist[i].skillName} :
           getSkillFromLock(After(i), n, hist[i].global) = [found |-> TRUE, entry |-> old[n]]

\* C26: after a call of addSkillToLock that returns, the entry of the name
\* holds the new fields and the time of the call as updatedAt, its
\* installedAt is that of the entry the lock file held for the name (the time
\* of the call for a new name), and the entries the file held for the other
\* names are unchanged.
C26_EntryReplacedOthersKept ==
    \A i \in Calls :
        hist[i].err = "" => Updated(i, WrittenSkills(hist[i].before, hist[i].global))

\* C26, amended: the same, for the entries that readSkillLock reads from the
\* file, which are none when the file has a version older than the current
\* one or is not JSON.
C26_ReadableEntryReplacedOthersKept ==
    \A i \in Calls :
        hist[i].err = "" => Updated(i, readLock(hist[i].before, hist[i].global).skills)

\* a later call replaced the entry of a name the lock file held, next to the
\* entry of another name
C26_Witness ==
    \E i \in Calls :
        /\ hist[i].err = "" /\ hist[i].now > 1
        /\ DOMAIN readLock(hist[i].before, hist[i].global).skills = LockNames
        /\ getSkillFromLock(After(i), hist[i].skillName, hist[i].global).entry.installedAt
               < hist[i].now
        /\ getSkillFromLock(After(i), hist[i].skillName, hist[i].global).entry.skillFolderHash
               = hist[i].entry.skillFolderHash

(***************************************************************************)
(* The entry filter of extractTarball, on the paths an archive may name.   *)
(***************************************************************************)
\* normalizeString of node:path for a relative path: "" and "." go, ".."
\* takes back a name and stays when there is none
RECURSIVE NormRelAcc(_, _)
NormRelAcc(segs, acc) ==
    IF segs = <<>> THEN acc
    ELSE IF Head(segs) = <<>> \/ Head(segs) = DOT THEN NormRelAcc(Tail(segs), acc)
    ELSE IF Head(segs) = DOTDOT /\ acc # <<>> /\ acc[Len(acc)] # DOTDOT
         THEN NormRelAcc(Tail(segs), SubSeq(acc, 1, Len(acc) - 1))
    ELSE NormRelAcc(Tail(segs), Append(acc, Head(segs)))

\* the end of path.normalize: "/" for an absolute path that is empty, "." or
\* "./" for a relative one, the trailing separator kept
normalizeEnd(str, body) ==
    IF body = <<>>
    THEN (IF IsAbs(str) THEN <<SEP>>
          ELSE IF str # <<>> /\ str[Len(str)] = SEP THEN <<".", SEP>> ELSE <<".">>)
    ELSE (IF IsAbs(str) THEN <<SEP>> ELSE <<>>) \o body
         \o (IF str[Len(str)] = SEP THEN <<SEP>> ELSE <<>>)

\* path.normalize(str)
normalize(str) ==
    normalizeEnd(str, RelStr(IF IsAbs(str) THEN Norm(Split(str))
                             ELSE NormRelAcc(Split(str), <<>>)))

\* replace(/^(\.\.[/\\])+/, '')
RECURSIVE stripClimbs(_)
stripClimbs(str) ==
    IF Len(str) >= 3 /\ str[1] = "." /\ str[2] = "." /\ str[3] \in {SEP, "\\"}
    THEN stripClimbs(SubSeq(str, 4, Len(str)))
    ELSE str

\* the last statements of the filter: the path joined to the directory
filterResolved(extractDir, resolved) ==
    \/ StartsWith(PathStr(resolved), PathStr(extractDir) \o <<SEP>>)
    \/ resolved = extractDir

filterNormalized(extractDir, entryPath, normalized) ==
    IF IsAbs(entryPath) THEN FALSE
    ELSE IF StartsWith(normalized, <<".", ".", SEP>>) \/ normalized = DOTDOT THEN FALSE
    ELSE filterResolved(extractDir, join(extractDir, normalized))

\* filter: (entryPath) => ... of tar.extract
filter(extractDir, entryPath) ==
    filterNormalized(extractDir, entryPath, stripClimbs(normalize(entryPath)))

\* join(tmpdir(), `skill-content-${randomUUID()}`)
ExtractDir == Append(TMP, <<"s","k","i","l","l","-","c","o","n","t","e","n","t","-","1">>)

TarInit ==
    /\ arg \in PathStrings(MaxTargetSegs)
    /\ ret = NoReturn
    /\ fs = Sources /\ cwd = PROJ /\ global = FALSE /\ pool = {}
    /\ faults = 0 /\ hist = <<>>

FilterEntry ==
    /\ ~ret.done
    /\ ret' = Returned(filter(ExtractDir, arg))
    /\ UNCHANGED <<fs, cwd, global, pool, faults, hist, arg>>

TarNext == FilterEntry

TarSpec == TarInit /\ [][TarNext]_vars

\* C28: the filter accepts an entry only if the entry's path is relative and,
\* resolved against the extraction directory, is that directory or lies below
\* it.
C28_FilterAcceptsOnlyInside ==
    (ret.done /\ ret.value) =>
        /\ ~IsAbs(arg)
        /\ IsPrefix(ExtractDir, Norm(ExtractDir \o Split(arg)))

(***************************************************************************)
(* The path validation for every name of Names: one call of                *)
(* installSkillForAgent, getInstallPath and getCanonicalPath for a skill   *)
(* of that name, an agent and a scope.                                     *)
(***************************************************************************)
\* getInstallPath and getCanonicalPath throw
installPathThrows(skillName, agentType, isGlobal) ==
    ~isPathSafe(targetBase(agentType, isGlobal), getInstallPath(skillName, agentType, isGlobal))

canonicalPathThrows(skillName, isGlobal) ==
    ~isPathSafe(getCanonicalSkillsDir(isGlobal), getCanonicalPath(skillName, isGlobal))

NameInit ==
    /\ cwd \in ProcessCwds
    /\ fs = BaseDisk(cwd)
    /\ arg \in [name : Names, agent : AgentType, global : BOOLEAN]
    /\ ret = NoReturn
    /\ global = FALSE /\ pool = {} /\ faults = 0 /\ hist = <<>>

ValidateName ==
    /\ ~ret.done
    /\ \E r \in {installSkillForAgent(fs, [name |-> arg.name, path |-> S1], arg.agent,
                                      arg.global, FALSE, 0)} :
          /\ fs' = r.m.fs
          /\ ret' = Returned([T |-> r.T, res |-> r.res,
                              installPath |-> getInstallPath(arg.name, arg.agent, arg.global),
                              installThrows |-> installPathThrows(arg.name, arg.agent,
                                                                  arg.global),
                              canonicalPath |-> getCanonicalPath(arg.name, arg.global),
                              canonicalThrows |-> canonicalPathThrows(arg.name, arg.global)])
    /\ UNCHANGED <<cwd, global, pool, faults, hist, arg>>

NameNext == ValidateName

NameSpec == NameInit /\ [][NameNext]_vars

\* C29: for every name, the canonical directory and the agent's directory
\* are direct children of their bases, named by the sanitized name;
\* isPathSafe holds for both, installSkillForAgent does not answer with the
\* path traversal error, and getInstallPath and getCanonicalPath do not throw
\* and return a direct child of their base.
C29_SanitizedNameStaysInBase ==
    ret.done =>
        /\ ret.value.T.canonicalDir = Append(ret.value.T.canonicalBase, ret.value.T.skillName)
        /\ ret.value.T.agentDir = Append(ret.value.T.agentBase, ret.value.T.skillName)
        /\ isPathSafe(ret.value.T.canonicalBase, ret.value.T.canonicalDir)
        /\ isPathSafe(ret.value.T.agentBase, ret.value.T.agentDir)
        /\ ret.value.res.error # TRAVERSAL
        /\ ~ret.value.installThrows /\ ~ret.value.canonicalThrows
        /\ Parent(ret.value.installPath) = targetBase(arg.agent, arg.global)
        /\ Len(ret.value.installPath) = Len(targetBase(arg.agent, arg.global)) + 1
        /\ Parent(ret.value.canonicalPath) = getCanonicalSkillsDir(arg.global)
        /\ Len(ret.value.canonicalPath) = Len(getCanonicalSkillsDir(arg.global)) + 1

\* the name ../ went through the validation and the skill was installed
C29_Witness ==
    /\ ret.done
    /\ arg.name = <<".", ".", "/">>
    /\ ret.value.res.success
    /\ ret.value.T.skillName = UNNAMED

(***************************************************************************)
(* runInstallFromFile.  The content of a .skills file is the list of its   *)
(* parsed entries, each a source and the skills named after it (none: no   *)
(* filter).  The lock file is the one of the rich form above, its entries  *)
(* carrying source and sourceUrl.  runAdd is not part of the sources at    *)
(* hand: a call either throws, or installs the skills the source offers    *)
(* (those of the filter, when there is one) into the canonical directory   *)
(* and records them in the lock file.                                      *)
(***************************************************************************)
SKILLS_FILENAME == <<".","s","k","i","l","l","s">>

UpperLetters ==
    <<"A","B","C","D","E","F","G","H","I","J","K","L","M","N","O","P","Q","R","S","T",
      "U","V","W","X","Y","Z">>
LowerLetters ==
    <<"a","b","c","d","e","f","g","h","i","j","k","l","m","n","o","p","q","r","s","t",
      "u","v","w","x","y","z">>

toLowerChar(c) ==
    IF \E k \in 1..Len(UpperLetters) : UpperLetters[k] = c
    THEN LowerLetters[CHOOSE k \in 1..Len(UpperLetters) : UpperLetters[k] = c]
    ELSE c

toLowerCase(str) == [k \in 1..Len(str) |-> toLowerChar(str[k])]

NoConfig == [found |-> FALSE, isGlobal |-> FALSE, entries |-> <<>>]

\* findSkillsFile(): the file of the working directory before that of the home
findSkillsFile(f) ==
    IF access(f, join(cwd, SKILLS_FILENAME))
    THEN [found |-> TRUE, isGlobal |-> FALSE,
          entries |-> NodeAt(f, stat(f, join(cwd, SKILLS_FILENAME)).p).c]
    ELSE IF access(f, join(homedir, SKILLS_FILENAME))
    THEN [found |-> TRUE, isGlobal |-> TRUE,
          entries |-> NodeAt(f, stat(f, join(homedir, SKILLS_FILENAME)).p).c]
    ELSE NoConfig

\* the test getInstalledSkillNames makes of one entry of the directory
installedEntry(f, p) ==
    /\ lstat(f, p).err = "" /\ lstat(f, p).ex
    /\ NodeAt(f, lstat(f, p).p).t \in {"dir", "link"}
    /\ IF access(f, Append(p, SKILL_MD))
       THEN NodeAt(f, stat(f, Append(p, SKILL_MD)).p).t = "file"
       ELSE readdirAt(f, stat(f, p)) # {}

getInstalledSkillNames(f, isGlobal) ==
    {x \in readdirAt(f, stat(f, getCanonicalSkillsDir(isGlobal))) :
        installedEntry(f, Append(getCanonicalSkillsDir(isGlobal), x))}

\* try { await rm(p, {recursive: true, force: true}) } catch {}
tryRm(m, p) == IF m.err # "" THEN m ELSE [rmForce(m, p) EXCEPT !.err = ""]

\* removeSkillFromLock(skillName), on the lock file of the home directory
removeFromLock(m, skillName) ==
    IF m.err # "" THEN m
    ELSE IF skillName \notin DOMAIN readLock(m.fs, TRUE).skills THEN m
    ELSE writeLock(m, [readLock(m.fs, TRUE) EXCEPT
                          !.skills = [n \in DOMAIN @ \ {skillName} |-> @[n]]], TRUE)

\* Object.entries(agents)
AgentOrder == <<"amp", "claude", "cursor">>

RECURSIVE removeSkillAgents(_, _, _, _)
removeSkillAgents(m, skillName, order, isGlobal) ==
    IF order = <<>> THEN m
    ELSE removeSkillAgents(tryRm(m, join(targetBase(Head(order), isGlobal), skillName)),
                           skillName, Tail(order), isGlobal)

removeSkill(m, skillName, isGlobal) ==
    removeFromLock(
        removeSkillAgents(tryRm(m, join(getCanonicalSkillsDir(isGlobal), skillName)),
                          skillName, AgentOrder, isGlobal),
        skillName)

sourcesSet(entries) == {entries[k].source : k \in 1..Len(entries)}

\* skillFilters: the filter of a source is that of the last entry that names
\* the source with skills
Filtering(entries, source) ==
    {k \in 1..Len(entries) : entries[k].source = source /\ entries[k].skills # <<>>}

hasFilter(entries, source) == Filtering(entries, source) # {}

filterOf(entries, source) ==
    entries[CHOOSE k \in Filtering(entries, source) :
                \A j \in Filtering(entries, source) : j <= k].skills

\* filter.some(...) for the filter of a source
matchesFilter(skillName, filtered) ==
    \E j \in 1..Len(filtered) :
        \/ toLowerCase(skillName) = toLowerCase(filtered[j])
        \/ Contains(toLowerCase(skillName), toLowerCase(filtered[j]))
        \/ Contains(toLowerCase(filtered[j]), toLowerCase(skillName))

\* the first test of the loop: the source or the URL of the entry is listed
keptListed(entries, skillName, lockEntry) ==
    /\ lockEntry.source \in sourcesSet(entries) \/ lockEntry.sourceUrl \in sourcesSet(entries)
    /\ IF hasFilter(entries, lockEntry.source)
       THEN matchesFilter(skillName, filterOf(entries, lockEntry.source))
       ELSE IF hasFilter(entries, lockEntry.sourceUrl)
       THEN matchesFilter(skillName, filterOf(entries, lockEntry.sourceUrl))
       ELSE TRUE

\* the second test: a listed source holds, or is held by, the entry's source
keptPattern(entries, skillName, lockEntry) ==
    \E source \in sourcesSet(entries) :
        /\ Contains(lockEntry.source, source) \/ Contains(source, lockEntry.source)
        /\ IF hasFilter(entries, source)
           THEN matchesFilter(skillName, filterOf(entries, source))
           ELSE TRUE

skillsToKeep(entries, lock) ==
    {n \in DOMAIN lock.skills :
        keptListed(entries, n, lock.skills[n]) \/ keptPattern(entries, n, lock.skills[n])}

skillsToRemove(f, entries, isGlobal) ==
    {n \in getInstalledSkillNames(f, isGlobal) :
        n \in DOMAIN readLock(f, TRUE).skills /\ n \notin skillsToKeep(entries, readLock(f, TRUE))}

\* what the sources offer
SrcX == <<"o", "/", "r">>
SrcY == <<"o", "/", "q">>
SrcZ == <<"z">>
NameA == <<"a">>
NameB == <<"b">>
NameC == <<"c">>
NameD == <<"d">>

Offered(source) ==
    IF source = SrcX THEN {NameA, NameB} ELSE IF source = SrcY THEN {NameC} ELSE {}

sourceUrlOf(source) == <<"u", ":">> \o source

Selected(entry) ==
    IF entry.skills = <<>> THEN Offered(entry.source)
    ELSE Offered(entry.source) \cap Range(entry.skills)

SyncEntry(source) == [source |-> source, sourceUrl |-> sourceUrlOf(source)]

RECURSIVE putSkills(_, _, _)
putSkills(f, base, names) ==
    IF names = {} THEN f
    ELSE putSkills(Put(Put(f, Append(base, CHOOSE n \in names : TRUE), Dir),
                       Append(Append(base, CHOOSE n \in names : TRUE), SKILL_MD), File("md1")),
                   base, names \ {CHOOSE n \in names : TRUE})

withSkills(lock, names, source) ==
    [lock EXCEPT !.skills = [n \in names |-> SyncEntry(source)] @@ lock.skills]

withParents(f, p) ==
    f @@ [q \in {SubSeq(p, 1, k) : k \in 1..Len(p)} |-> Dir]

\* runAdd([entry.source], installOptions) that returns
runAdd(m, entry, isGlobal) ==
    [m EXCEPT !.fs =
        Put(putSkills(withParents(withParents(m.fs, getCanonicalSkillsDir(isGlobal)),
                                  Parent(lockPath(TRUE))),
                      getCanonicalSkillsDir(isGlobal), Selected(entry)),
            lockPath(TRUE),
            File(withSkills(readLock(m.fs, TRUE), Selected(entry), entry.source)))]

\* the loop over config.entries; thrown: the entries for which runAdd throws
RECURSIVE installEntries(_, _, _, _, _)
installEntries(m, entries, k, thrown, isGlobal) ==
    IF k > Len(entries) THEN m
    ELSE installEntries(IF k \in thrown THEN m ELSE runAdd(m, entries[k], isGlobal),
                        entries, k + 1, thrown, isGlobal)

\* the loop over skillsToRemove; an exception ends it
RECURSIVE removeSkills(_, _, _)
removeSkills(m, order, isGlobal) ==
    IF order = <<>> \/ m.err # "" THEN m
    ELSE removeSkills(removeSkill(m, Head(order), isGlobal), Tail(order), isGlobal)

SyncRun(m, mid, toRemove) == [m |-> m, mid |-> mid, toRemove |-> toRemove]

runSync(m1, config, order) == SyncRun(removeSkills(m1, order, config.isGlobal), m1.fs, Range(order))

\* runInstallFromFile(options) for the config found
runInstallFound(m, config, sync, thrown, order) ==
    IF config.entries = <<>> THEN SyncRun(m, m.fs, {})
    ELSE IF ~sync
    THEN SyncRun(installEntries(m, config.entries, 1, thrown, config.isGlobal),
                 installEntries(m, config.entries, 1, thrown, config.isGlobal).fs, {})
    ELSE runSync(installEntries(m, config.entries, 1, thrown, config.isGlobal), config, order)

\* the orders in which readdir may list the skills to remove
RemovalOrders(f, config, thrown) ==
    Orders(skillsToRemove(
               installEntries([fs |-> f, err |-> "", n |-> 0, at |-> 0, sticky |-> FALSE,
                               log |-> {}],
                              config.entries, 1, thrown, config.isGlobal).fs,
               config.entries, config.isGlobal))

SyncConfigs ==
    { << [source |-> SrcX, skills |-> <<>>] >>,
      << [source |-> SrcX, skills |-> <<NameA>>] >>,
      << [source |-> SrcX, skills |-> <<NameA>>], [source |-> SrcX, skills |-> <<NameB>>] >>,
      << [source |-> SrcZ, skills |-> <<>>], [source |-> SrcY, skills |-> <<<<"C">>>>] >>,
      << [source |-> sourceUrlOf(SrcX), skills |-> <<NameB>>] >>,
      <<>> }

SyncLocks ==
    { LockJson(CURRENT_VERSION, <<>>),
      LockJson(CURRENT_VERSION, [n \in {NameA, NameB} |-> SyncEntry(SrcX)]),
      LockJson(CURRENT_VERSION,
               [n \in {NameA, NameC} |-> IF n = NameA THEN SyncEntry(SrcX) ELSE SyncEntry(SrcY)]) }

SyncInstalled == { {}, {NameA, NameB, NameD}, {NameA, NameC, NameD} }

SyncDisk(g, entries, lock, names) ==
    (join(IF g THEN homedir ELSE PROJ, SKILLS_FILENAME) :> File(entries))
    @@ (lockPath(TRUE) :> File(lock))
    @@ putSkills(withParents(withParents(BaseDisk(PROJ), Parent(lockPath(TRUE))),
                             join(IF g THEN homedir ELSE PROJ,
                                  AGENTS_DIR \o <<SEP>> \o SKILLS_SUBDIR)),
                 join(IF g THEN homedir ELSE PROJ, AGENTS_DIR \o <<SEP>> \o SKILLS_SUBDIR),
                 names)

SyncInit ==
    /\ cwd = PROJ
    /\ fs \in {BaseDisk(PROJ)} \cup
              { SyncDisk(g, entries, lock, names) :
                  g \in BOOLEAN, entries \in SyncConfigs, lock \in SyncLocks,
                  names \in SyncInstalled }
    /\ global = FALSE /\ pool = {} /\ faults = 0 /\ hist = <<>> /\ arg = <<>>
    /\ ret = NoReturn

SyncRecord(config, sync, thrown, at, r) ==
    [before |-> fs, config |-> config, sync |-> sync, thrown |-> thrown, at |-> at,
     mid |-> r.mid, toRemove |-> r.toRemove, err |-> r.m.err, log |-> r.m.log]

\* a run during which the file system works
InstallFromFile ==
    /\ Len(hist) < MaxCalls
    /\ findSkillsFile(fs).found
    /\ \E sync \in BOOLEAN, thrown \in SUBSET (1..Len(findSkillsFile(fs).entries)) :
          \E order \in RemovalOrders(fs, findSkillsFile(fs), thrown) :
              \E r \in {runInstallFound([fs |-> fs, err |-> "", n |-> 0, at |-> 0,
                                         sticky |-> FALSE, log |-> {}],
                                        findSkillsFile(fs), sync, thrown, order)} :
                  /\ fs' = r.m.fs
                  /\ hist' = Append(hist, SyncRecord(findSkillsFile(fs), sync, thrown, 0, r))
    /\ UNCHANGED <<cwd, global, pool, faults, arg, ret>>

\* a run during which one mutating system call fails
InstallFromFileFaulty ==
    /\ Len(hist) < MaxCalls
    /\ faults < MaxFaults
    /\ findSkillsFile(fs).found
    /\ \E thrown \in SUBSET (1..Len(findSkillsFile(fs).entries)) :
          \E order \in RemovalOrders(fs, findSkillsFile(fs), thrown) :
              \E r0 \in {runInstallFound([fs |-> fs, err |-> "", n |-> 0, at |-> 0,
                                          sticky |-> FALSE, log |-> {}],
                                         findSkillsFile(fs), TRUE, thrown, order)} :
                  \E at \in 1..r0.m.n :
                      \E r \in {runInstallFound([fs |-> fs, err |-> "", n |-> 0, at |-> at,
                                                 sticky |-> FALSE, log |-> {}],
                                                findSkillsFile(fs), TRUE, thrown, order)} :
                          /\ fs' = r.m.fs
                          /\ hist' = Append(hist, SyncRecord(findSkillsFile(fs), TRUE, thrown,
                                                             at, r))
    /\ faults' = faults + 1
    /\ UNCHANGED <<cwd, global, pool, arg, ret>>

\* a run that finds no .skills file
InstallFromNoFile ==
    /\ Len(hist) < MaxCalls
    /\ ~findSkillsFile(fs).found
    /\ hist' = Append(hist, SyncRecord(NoConfig, TRUE, {}, 0,
                                       SyncRun([fs |-> fs, err |-> "", n |-> 0, at |-> 0,
                                                sticky |-> FALSE, log |-> {}], fs, {})))
    /\ UNCHANGED <<fs, cwd, global, pool, faults, arg, ret>>

SyncNext == InstallFromFile \/ InstallFromFileFaulty \/ InstallFromNoFile

SyncSpec == SyncInit /\ [][SyncNext]_vars

\* the directories of a skill name in a scope
SkillDirs(n, isGlobal) ==
    {join(getCanonicalSkillsDir(isGlobal), n)}
    \cup {join(targetBase(a, isGlobal), n) : a \in AgentType}

\* a line of the .skills file names the source or the URL of the lock entry
\* and, when it names skills, the skill
Listed(entries, n, lockEntry) ==
    \E k \in 1..Len(entries) :
        /\ entries[k].source \in {lockEntry.source, lockEntry.sourceUrl}
        /\ entries[k].skills = <<>> \/ n \in Range(entries[k].skills)

\* C30: a run of runInstallFromFile removes entries only under the
\* directories of skills that are installed in the canonical directory of
\* the scope of the .skills file, that the lock file tracks, and whose lock
\* entry no line of the .skills file names; and every source for which
\* runAdd returns is installed, whatever happened to the sources before it.
C30_SyncRemovesOnlyUnlisted ==
    \A i \in Calls :
        /\ \A e \in hist[i].log :
               e.op = "rm" =>
                   \E n \in getInstalledSkillNames(hist[i].mid, hist[i].config.isGlobal) :
                       /\ e.p \in SkillDirs(n, hist[i].config.isGlobal)
                       /\ n \in DOMAIN readLock(hist[i].mid, TRUE).skills
                       /\ ~Listed(hist[i].config.entries, n, readLock(hist[i].mid, TRUE).skills[n])
        /\ \A k \in 1..Len(hist[i].config.entries) :
               k \notin hist[i].thrown =>
                   Selected(hist[i].config.entries[k])
                       \subseteq getInstalledSkillNames(hist[i].mid, hist[i].config.isGlobal)

====
